---------------------------- MODULE Spec2Model ----------------------------
(***************************************************************************)
(* ERF expeditor e-mail automation: sheet selection, record filtering,     *)
(* requester grouping, recipient resolution and dispatch.                  *)
(*                                                                         *)
(* Python strings are sequences of code points, so that strip / upper /    *)
(* lower / substring / ordering are computed and not assumed.  An optional *)
(* value is None (the empty tuple) or Some(x) (the one-element tuple).     *)
(***************************************************************************)
EXTENDS Integers, Sequences, FiniteSets, TLC

VARIABLES
    workbook,        \* the Excel file: sequence of [name, df], workbook order
    raw_data,        \* ExcelProcessor.raw_data       (None | Some(df))
    filtered_data,   \* ExcelProcessor.filtered_data  (None | Some(df))
    grouped_data,    \* ExcelProcessor.grouped_data   (None | Some(groupby))
    selected_sheet,  \* ExcelProcessor.selected_sheet (None | Some(name))
    ret,             \* the last call and what it returned
    email_mapping,   \* EmailResolver.email_mapping: the dict as its items, in order
    unmapped_users,  \* EmailResolver.unmapped_users
    resolution_stats,\* OutlookEmailService.resolution_stats
    is_connected,    \* OutlookEmailService.is_connected
    address_book,    \* OutlookEmailService.address_book (None | Some(entries))
    email_data,      \* the email_data list of the last dispatch run
    transport_log,   \* the mail items handed to Outlook in the last dispatch run
    resolutions,     \* every search_contact_email call so far: [id, email]
    pc,              \* where main() stands
    calls,           \* number of service calls made by a free client
    exit_status      \* the status the process ended with, None while it runs

procVars == <<raw_data, filtered_data, grouped_data, selected_sheet>>
resolverVars == <<email_mapping, unmapped_users, resolution_stats, resolutions>>
outlookVars == <<is_connected, address_book>>
svcVars == <<resolverVars, outlookVars, email_data, transport_log>>

vars == <<workbook, procVars, ret, svcVars, pc, calls, exit_status>>

None == <<>>
Some(x) == <<x>>
TheVal(o) == o[1]

-----------------------------------------------------------------------------
(* Python str operations                                                   *)

\* str.isspace() of one character: the ASCII controls 9-13 and 28-31, the
\* blank, NEL, the no-break space and the Unicode spaces and separators
IsSpace(c) ==
    c \in {9, 10, 11, 12, 13, 28, 29, 30, 31, 32, 133, 160, 5760, 8232, 8233,
           8239, 8287, 12288} \cup (8192..8202)

RECURSIVE LStrip(_)
LStrip(s) == IF s # <<>> /\ IsSpace(Head(s)) THEN LStrip(Tail(s)) ELSE s

RECURSIVE RStrip(_)
RStrip(s) ==
    IF s # <<>> /\ IsSpace(s[Len(s)]) THEN RStrip(SubSeq(s, 1, Len(s) - 1)) ELSE s

\* str.strip()
Strip(s) == RStrip(LStrip(s))

\* str.upper() / str.lower() on ASCII
Upper(s) == [i \in 1..Len(s) |-> IF s[i] \in 97..122 THEN s[i] - 32 ELSE s[i]]
Lower(s) == [i \in 1..Len(s) |-> IF s[i] \in 65..90 THEN s[i] + 32 ELSE s[i]]

\* sub in s
Contains(s, sub) ==
    \E i \in 0..(Len(s) - Len(sub)) : SubSeq(s, i + 1, i + Len(sub)) = sub

\* c in s, for one character
HasChar(s, c) == \E i \in 1..Len(s) : s[i] = c

\* sep.join(parts)
RECURSIVE Join(_, _)
Join(parts, sep) ==
    IF parts = <<>> THEN <<>>
    ELSE IF Len(parts) = 1 THEN parts[1]
    ELSE parts[1] \o sep \o Join(Tail(parts), sep)

\* a < b for str (code point order)
RECURSIVE StrLess(_, _)
StrLess(a, b) ==
    IF b = <<>> THEN FALSE
    ELSE IF a = <<>> THEN TRUE
    ELSE IF Head(a) # Head(b) THEN Head(a) < Head(b)
    ELSE StrLess(Tail(a), Tail(b))

\* x in list
InSeq(x, xs) == \E i \in 1..Len(xs) : xs[i] = x

-----------------------------------------------------------------------------
(* Configuration (config/settings.py) and literals of the code             *)

COL_STATUS == <<69, 82, 70, 32, 83, 99, 104, 101, 100, 32, 76, 105, 110, 101, 32, 83, 116, 97, 116, 117, 115>>   \* "ERF Sched Line Status"
COL_ENTERED_BY == <<69, 110, 116, 101, 114, 101, 100, 32, 98, 121>>   \* "Entered by"
K_Plnt == <<80, 108, 110, 116>>   \* "Plnt"
K_ShipToPlant == <<83, 104, 105, 112, 45, 84, 111, 45, 80, 108, 97, 110, 116>>   \* "Ship-To-Plant"
K_ERFNr == <<69, 82, 70, 32, 78, 114>>   \* "ERF Nr"
K_Item == <<73, 116, 101, 109>>   \* "Item"
K_Material == <<77, 97, 116, 101, 114, 105, 97, 108>>   \* "Material"
K_MaterialDescription == <<77, 97, 116, 101, 114, 105, 97, 108, 32, 68, 101, 115, 99, 114, 105, 112, 116, 105, 111, 110>>   \* "Material Description"
K_Unit == <<85, 110, 105, 116>>   \* "Unit"
K_ERFItmQty == <<69, 82, 70, 32, 73, 116, 109, 32, 81, 116, 121>>   \* "ERF Itm Qty"
K_END == <<69, 78, 68>>   \* "END"
K_PODueDate == <<80, 79, 32, 68, 117, 101, 32, 68, 97, 116, 101>>   \* "PO Due Date"
K_Expeditor == <<69, 120, 112, 101, 100, 105, 116, 111, 114>>   \* "Expeditor"
K_ExpeditorStatus == <<69, 120, 112, 101, 100, 105, 116, 111, 114, 32, 83, 116, 97, 116, 117, 115>>   \* "Expeditor Status"
K_ExpeditorRemarks == <<69, 120, 112, 101, 100, 105, 116, 111, 114, 32, 82, 101, 109, 97, 114, 107, 115>>   \* "Expeditor Remarks"

\* Config.REQUIRED_COLUMNS
REQUIRED_COLUMNS ==
    << K_Plnt, K_ShipToPlant, K_ERFNr, K_Item, COL_ENTERED_BY,
       K_Material, K_MaterialDescription, K_Unit, K_ERFItmQty,
       COL_STATUS, K_END, K_PODueDate, K_Expeditor,
       K_ExpeditorStatus, K_ExpeditorRemarks >>

ST_OnOrder == <<79, 110, 32, 111, 114, 100, 101, 114>>   \* "On order"
ST_Received == <<82, 101, 99, 101, 105, 118, 101, 100>>   \* "Received"

\* Config.TARGET_STATUSES
TARGET_STATUSES == << ST_OnOrder, ST_Received >>

UNNAMED == <<85, 110, 110, 97, 109, 101, 100, 58>>   \* "Unnamed:"
PI_ColumnLabels == <<99, 111, 108, 117, 109, 110, 32, 108, 97, 98, 101, 108, 115>>   \* "column labels"
PI_RowLabels == <<114, 111, 119, 32, 108, 97, 98, 101, 108, 115>>   \* "row labels"
PI_CountOf == <<99, 111, 117, 110, 116, 32, 111, 102>>   \* "count of"
PI_SumOf == <<115, 117, 109, 32, 111, 102>>   \* "sum of"
PI_GrandTotal == <<103, 114, 97, 110, 100, 32, 116, 111, 116, 97, 108>>   \* "grand total"

\* pivot_indicators of _is_real_pivot_table
pivot_indicators ==
    << PI_ColumnLabels, PI_RowLabels, PI_CountOf, PI_SumOf, PI_GrandTotal >>

STR_nan == <<110, 97, 110>>   \* "nan"
SPACE == <<32>>               \* " "
TAB_SP == <<9, 32>>           \* "\t "

-----------------------------------------------------------------------------
(* DataFrames.  A frame is [columns, index, rows]: the column names, the   *)
(* index label of every row, and the rows as tuples of cells.  A cell is a *)
(* str or NaN (an empty spreadsheet cell).                                 *)

NaN == << -1 >>
IsNa(c) == c = NaN

\* str(cell)
Str(c) == IF IsNa(c) THEN STR_nan ELSE c

NRows(df) == Len(df.rows)
NCols(df) == Len(df.columns)

\* name in df.columns
HasColumn(df, name) == InSeq(name, df.columns)

\* position of a column that is present
ColIndex(df, name) == CHOOSE j \in 1..NCols(df) : df.columns[j] = name

\* df.empty
IsEmpty(df) == NRows(df) = 0 \/ NCols(df) = 0

\* df[mask] for a boolean mask: the rows kept, with their index labels
Take(df, mask) ==
    LET RECURSIVE pick(_)
        pick(i) == IF i > NRows(df) THEN <<>>
                   ELSE IF mask[i] THEN <<i>> \o pick(i + 1) ELSE pick(i + 1)
        pos == pick(1)
    IN  [columns |-> df.columns,
         index   |-> [k \in 1..Len(pos) |-> df.index[pos[k]]],
         rows    |-> [k \in 1..Len(pos) |-> df.rows[pos[k]]]]

\* df[name]: one column as the tuple of its cells
Column(df, name) == [i \in 1..NRows(df) |-> df.rows[i][ColIndex(df, name)]]

-----------------------------------------------------------------------------
(* ExcelProcessor: sheet selection                                         *)

Min(a, b) == IF a < b THEN a ELSE b

\* the lower-cased text of the first 5 x 5 cells, row by row, joined by " "
FirstFewCellsText(df) ==
    LET nr == Min(5, NRows(df))
        nc == Min(5, NCols(df))
        cells == [k \in 1..(nr * nc) |->
                    Lower(Str(df.rows[((k - 1) \div nc) + 1][((k - 1) % nc) + 1]))]
    IN  Join(cells, SPACE)

\* the largest power of two that is not above k (k >= 1)
RECURSIVE Pow2Floor(_)
Pow2Floor(k) == IF k < 2 THEN 1 ELSE 2 * Pow2Floor(k \div 2)

\* count > n * 0.7 as Python computes it, in binary floating point.  The
\* double nearest to 0.7 lies below 0.7 by 0.4 * 2^-53, so the exact product
\* lies below 7n/10 by 0.4 n * 2^-53.  When 7n/10 is not a whole number the
\* comparison with the whole number count is that of 10 count with 7 n.
\* When it is a whole number k, the product is rounded to k if that distance
\* is at most half the spacing of the doubles below k, which is
\* Pow2Floor(k) * 2^-53: that is when 4 k <= 7 Pow2Floor(k), and then count
\* must be above k; else the product is rounded to the double below k and
\* count = k is already above it (90 * 0.7 is 62.99999999999999).
MoreThanPoint7(count, n) ==
    IF (7 * n) % 10 # 0 \/ n = 0 THEN 10 * count > 7 * n
    ELSE LET Above(k) == IF 4 * k > 7 * Pow2Floor(k) THEN count >= k ELSE count > k
         IN  Above((7 * n) \div 10)

\* count > n * 0.8 in binary floating point: the double nearest to 0.8 lies
\* above 0.8, the product is never rounded below 8n/10, and the comparison
\* with a whole number is that of 10 count with 8 n
MoreThanPoint8(count, n) == 10 * count > 8 * n

\* _is_real_pivot_table without the marker-phrase loop
IsRealPivotTable_NoMarkers(df) ==
    IF NRows(df) < 3 THEN FALSE
    ELSE IF MoreThanPoint7(Cardinality({j \in 1..NCols(df) :
                                        Contains(df.columns[j], UNNAMED)}),
                           NCols(df)) THEN TRUE
    ELSE MoreThanPoint8(Cardinality({j \in 1..NCols(df) : IsNa(df.rows[1][j])}),
                        NCols(df))

\* _is_real_pivot_table without the early return for fewer than 3 rows; the
\* first-row test is passed over when there is no row
IsRealPivotTable_NoShortGuard(df) ==
    IF MoreThanPoint7(Cardinality({j \in 1..NCols(df) :
                                        Contains(df.columns[j], UNNAMED)}),
                           NCols(df)) THEN TRUE
    ELSE IF /\ NRows(df) > 0
            /\ MoreThanPoint8(Cardinality({j \in 1..NCols(df) : IsNa(df.rows[1][j])}),
                              NCols(df)) THEN TRUE
    ELSE \E k \in 1..Len(pivot_indicators) :
            Contains(FirstFewCellsText(df), pivot_indicators[k])

\* ExcelProcessor._is_real_pivot_table
IsRealPivotTable(df) ==
    IF NRows(df) < 3 THEN FALSE
    ELSE IF MoreThanPoint7(Cardinality({j \in 1..NCols(df) :
                                        Contains(df.columns[j], UNNAMED)}),
                           NCols(df)) THEN TRUE
    ELSE IF MoreThanPoint8(Cardinality({j \in 1..NCols(df) : IsNa(df.rows[1][j])}),
                           NCols(df)) THEN TRUE
    ELSE \E k \in 1..Len(pivot_indicators) :
            Contains(FirstFewCellsText(df), pivot_indicators[k])

\* _score_sheet comparing the column names as they are
ScoreSheet_Verbatim(df) ==
    Cardinality({k \in 1..Len(REQUIRED_COLUMNS) : InSeq(REQUIRED_COLUMNS[k], df.columns)})

\* ExcelProcessor._score_sheet
ScoreSheet(df) ==
    LET df_columns == [j \in 1..NCols(df) |-> Strip(df.columns[j])]
    IN  Cardinality({k \in 1..Len(REQUIRED_COLUMNS) :
                        InSeq(REQUIRED_COLUMNS[k], df_columns)})

\* the critical-column test comparing stripped column names
HasCriticalColumns_Stripped(df) ==
    /\ \E j \in 1..NCols(df) : Strip(df.columns[j]) = COL_STATUS
    /\ \E j \in 1..NCols(df) : Strip(df.columns[j]) = COL_ENTERED_BY

\* the critical-column test of find_data_sheet
HasCriticalColumns(df) ==
    HasColumn(df, COL_STATUS) /\ HasColumn(df, COL_ENTERED_BY)

\* the loop body with score >= best_score: a tie replaces the earlier sheet
AnalyzeSheet_TieLast(wb, i, best) ==
    LET df == wb[i].df IN
    IF IsEmpty(df) THEN best
    ELSE IF ~HasCriticalColumns(df) THEN best
    ELSE IF IsRealPivotTable(df) THEN best
    ELSE IF ScoreSheet(df) >= best.score
         THEN [sheet |-> Some(wb[i].name), score |-> ScoreSheet(df), data |-> Some(df)]
         ELSE best

\* one iteration of the loop of find_data_sheet over sheet i
AnalyzeSheet(wb, i, best) ==
    LET df == wb[i].df IN
    IF IsEmpty(df) THEN best
    ELSE IF ~HasCriticalColumns(df) THEN best
    ELSE IF IsRealPivotTable(df) THEN best
    ELSE IF ScoreSheet(df) > best.score
         THEN [sheet |-> Some(wb[i].name), score |-> ScoreSheet(df), data |-> Some(df)]
         ELSE best

RECURSIVE ScanSheets(_, _, _)
ScanSheets(wb, i, best) ==
    IF i > Len(wb) THEN best ELSE ScanSheets(wb, i + 1, AnalyzeSheet(wb, i, best))

\* ExcelProcessor.find_data_sheet: (found, sheet name, data)
FindDataSheet(wb) ==
    LET best == ScanSheets(wb, 1, [sheet |-> None, score |-> 0, data |-> None])
    IN  IF best.sheet # None /\ TheVal(best.sheet) # <<>>
        THEN [found |-> TRUE, sheet |-> best.sheet, data |-> best.data]
        ELSE [found |-> FALSE, sheet |-> None, data |-> None]

-----------------------------------------------------------------------------
(* ExcelProcessor: load, filter, group                                     *)

Ret(op, val) == [op |-> op, val |-> val]

\* ExcelProcessor.load_file; valid is the outcome of validate_excel_file
LoadFile(valid) ==
    LET r == FindDataSheet(workbook) IN
    IF ~valid \/ ~r.found
    THEN /\ ret' = Ret("load_file", FALSE)
         /\ UNCHANGED <<svcVars, workbook, raw_data, filtered_data, grouped_data, selected_sheet>>
    ELSE /\ raw_data' = r.data
         /\ selected_sheet' = r.sheet
         /\ ret' = Ret("load_file", TRUE)
         /\ UNCHANGED <<svcVars, workbook, filtered_data, grouped_data>>

\* the status test on trimmed values
StatusFilter_Trimmed(df) ==
    [i \in 1..NRows(df) |->
        ~IsNa(Column(df, COL_STATUS)[i])
        /\ InSeq(Strip(Column(df, COL_STATUS)[i]), TARGET_STATUSES)]

\* Series.isin(Config.TARGET_STATUSES) on the status column
StatusFilter(df) ==
    [i \in 1..NRows(df) |-> InSeq(Column(df, COL_STATUS)[i], TARGET_STATUSES)]

\* ExcelProcessor.filter_data
FilterData ==
    IF raw_data = None \/ ~HasColumn(TheVal(raw_data), COL_STATUS)
    THEN /\ ret' = Ret("filter_data", FALSE)
         /\ UNCHANGED <<svcVars, workbook, raw_data, filtered_data, grouped_data, selected_sheet>>
    ELSE LET fd == Take(TheVal(raw_data), StatusFilter(TheVal(raw_data))) IN
         /\ filtered_data' = Some(fd)
         /\ ret' = Ret("filter_data", NRows(fd) # 0)
         /\ UNCHANGED <<svcVars, workbook, raw_data, grouped_data, selected_sheet>>

\* dropna(subset=['Entered by']) followed by [str.strip() != '']
CleanData(df) ==
    LET notna == Take(df, [i \in 1..NRows(df) |-> ~IsNa(Column(df, COL_ENTERED_BY)[i])])
    IN  Take(notna, [i \in 1..NRows(notna) |->
                        Strip(Column(notna, COL_ENTERED_BY)[i]) # <<>>])

\* group_by_requester falling back on the unfiltered rows when filter_data
\* has not run
GroupByRequester_FromRaw ==
    LET source == IF filtered_data # None THEN filtered_data ELSE raw_data IN
    IF source = None \/ ~HasColumn(TheVal(source), COL_ENTERED_BY)
    THEN /\ ret' = Ret("group_by_requester", FALSE)
         /\ UNCHANGED <<svcVars, workbook, raw_data, filtered_data, grouped_data, selected_sheet>>
    ELSE LET clean == CleanData(TheVal(source)) IN
         IF NRows(clean) = 0
         THEN /\ ret' = Ret("group_by_requester", FALSE)
              /\ UNCHANGED <<svcVars, workbook, raw_data, filtered_data, grouped_data, selected_sheet>>
         ELSE /\ grouped_data' = Some([obj |-> clean, by |-> COL_ENTERED_BY])
              /\ ret' = Ret("group_by_requester", TRUE)
              /\ UNCHANGED <<svcVars, workbook, raw_data, filtered_data, selected_sheet>>

\* ExcelProcessor.group_by_requester; grouped_data is clean_data.groupby('Entered by')
GroupByRequester ==
    IF filtered_data = None \/ ~HasColumn(TheVal(filtered_data), COL_ENTERED_BY)
    THEN /\ ret' = Ret("group_by_requester", FALSE)
         /\ UNCHANGED <<svcVars, workbook, raw_data, filtered_data, grouped_data, selected_sheet>>
    ELSE LET clean == CleanData(TheVal(filtered_data)) IN
         IF NRows(clean) = 0
         THEN /\ ret' = Ret("group_by_requester", FALSE)
              /\ UNCHANGED <<svcVars, workbook, raw_data, filtered_data, grouped_data, selected_sheet>>
         ELSE /\ grouped_data' = Some([obj |-> clean, by |-> COL_ENTERED_BY])
              /\ ret' = Ret("group_by_requester", TRUE)
              /\ UNCHANGED <<svcVars, workbook, raw_data, filtered_data, selected_sheet>>

\* the keys of a set of str in ascending order (sorted)
RECURSIVE SortKeys(_)
SortKeys(S) ==
    IF S = {} THEN <<>>
    ELSE LET m == CHOOSE x \in S : \A y \in S : x = y \/ StrLess(x, y)
         IN  <<m>> \o SortKeys(S \ {m})

\* the group keys in the order a pandas GroupBy yields them (sort=True)
GroupKeys(g) ==
    SortKeys({Column(g.obj, g.by)[i] : i \in 1..NRows(g.obj)})

\* iterating a GroupBy: (name, group) pairs, one per key
GroupIter(g) ==
    LET keys == GroupKeys(g) IN
    [k \in 1..Len(keys) |->
        [name  |-> keys[k],
         group |-> Take(g.obj, [i \in 1..NRows(g.obj) |->
                                    Column(g.obj, g.by)[i] = keys[k]])]]

\* ExcelProcessor.get_grouped_data: the dict, as its items in iteration order
GroupedData ==
    IF grouped_data = None THEN <<>> ELSE GroupIter(TheVal(grouped_data))

GetGroupedData ==
    /\ ret' = Ret("get_grouped_data", GroupedData)
    /\ UNCHANGED <<svcVars, workbook, raw_data, filtered_data, grouped_data, selected_sheet>>

\* a call of find_data_sheet on the workbook
FindDataSheetCall ==
    /\ ret' = Ret("find_data_sheet", FindDataSheet(workbook))
    /\ UNCHANGED <<svcVars, workbook, raw_data, filtered_data, grouped_data, selected_sheet>>

\* a call of _score_sheet on sheet i of the workbook
ScoreSheetCall(i) ==
    /\ ret' = Ret("score_sheet", [sheet |-> i, score |-> ScoreSheet(workbook[i].df)])
    /\ UNCHANGED <<svcVars, workbook, raw_data, filtered_data, grouped_data, selected_sheet>>

\* a call of _is_real_pivot_table on sheet i of the workbook
IsRealPivotTableCall(i) ==
    /\ ret' = Ret("is_real_pivot_table",
                  [sheet |-> i, pivot |-> IsRealPivotTable(workbook[i].df)])
    /\ UNCHANGED <<svcVars, workbook, raw_data, filtered_data, grouped_data, selected_sheet>>

-----------------------------------------------------------------------------
(* EmailResolver and OutlookEmailService: recipient resolution             *)

\* Config.SEARCH_OUTLOOK_CONTACTS, at its default
SEARCH_OUTLOOK_CONTACTS == TRUE

AT == 64     \* "@"
DOT == 46    \* "."

\* the position of the first item of the mapping that satisfies a test, or 0
FirstExact(m, clean) ==
    IF \E i \in 1..Len(m) : m[i].key = clean
    THEN CHOOSE i \in 1..Len(m) : m[i].key = clean
    ELSE 0

\* the substring scan returning the last matching item instead of the first
FirstPartial_Last(m, clean) ==
    LET hits == {i \in 1..Len(m) : Contains(m[i].key, clean) \/ Contains(clean, m[i].key)}
    IN  IF hits = {} THEN 0 ELSE CHOOSE i \in hits : \A h \in hits : i >= h

\* a substring scan in which an empty text is contained in nothing
FirstPartial_NonEmpty(m, clean) ==
    LET hits == {i \in 1..Len(m) :
                    \/ clean # <<>> /\ Contains(m[i].key, clean)
                    \/ m[i].key # <<>> /\ Contains(clean, m[i].key)}
    IN  IF hits = {} THEN 0 ELSE CHOOSE i \in hits : \A h \in hits : i <= h

\* clean_username in eng_id or eng_id in clean_username, first item in dict order
FirstPartial(m, clean) ==
    LET hits == {i \in 1..Len(m) : Contains(m[i].key, clean) \/ Contains(clean, m[i].key)}
    IN  IF hits = {} THEN 0 ELSE CHOOSE i \in hits : \A h \in hits : i <= h

\* resolve_email trying the substring scan before the exact key
ResolveEmail_PartialFirst(m, unmapped, username) ==
    IF username = <<>> THEN [email |-> None, unmapped |-> unmapped]
    ELSE LET Pick(e, p) ==
                 IF p # 0 THEN [email |-> Some(m[p].email), unmapped |-> unmapped]
                 ELSE IF e # 0 THEN [email |-> Some(m[e].email), unmapped |-> unmapped]
                 ELSE [email |-> None, unmapped |-> unmapped \cup {username}]
             Lookup(clean) == Pick(FirstExact(m, clean), FirstPartial(m, clean))
         IN  Lookup(Upper(Strip(username)))

\* resolve_email that does not record the identifiers it cannot resolve
ResolveEmail_NoRecord(m, unmapped, username) ==
    IF username = <<>> THEN [email |-> None, unmapped |-> unmapped]
    ELSE LET Pick(e, p) ==
                 IF e # 0 THEN [email |-> Some(m[e].email), unmapped |-> unmapped]
                 ELSE IF p # 0 THEN [email |-> Some(m[p].email), unmapped |-> unmapped]
                 ELSE [email |-> None, unmapped |-> unmapped]
             Lookup(clean) == Pick(FirstExact(m, clean), FirstPartial(m, clean))
         IN  Lookup(Upper(Strip(username)))

\* EmailResolver.resolve_email on the set unmapped: the address returned
\* (None | Some(email)) and unmapped_users after the call
ResolveEmail(m, unmapped, username) ==
    IF username = <<>> THEN [email |-> None, unmapped |-> unmapped]
    ELSE LET Pick(e, p) ==
                 IF e # 0 THEN [email |-> Some(m[e].email), unmapped |-> unmapped]
                 ELSE IF p # 0 THEN [email |-> Some(m[p].email), unmapped |-> unmapped]
                 ELSE [email |-> None, unmapped |-> unmapped \cup {username}]
             Lookup(clean) == Pick(FirstExact(m, clean), FirstPartial(m, clean))
         IN  Lookup(Upper(Strip(username)))

\* Step 2 of search_contact_email: the Global Address List search.  The first
\* entry whose name contains the text decides: its SMTP address, or None when
\* GetExchangeUser() fails (the exception is caught) or nothing matches.
OutlookSearch(name) ==
    IF is_connected /\ SEARCH_OUTLOOK_CONTACTS /\ address_book # None
    THEN LET entries == TheVal(address_book)
             hits == {i \in 1..Len(entries) :
                        Contains(Lower(entries[i].Name), Lower(name))}
         IN  IF hits = {} THEN None
             ELSE entries[CHOOSE i \in hits : \A h \in hits : i <= h].smtp
    ELSE None

Bump(stats, field) == [stats EXCEPT ![field] = @ + 1]

\* the resolver state threaded through a handler
ResolverState == [unmapped |-> unmapped_users, stats |-> resolution_stats, log |-> resolutions]

\* search_contact_email past the address test: the resolver's dictionary
\* tiers, then the Outlook address list, with the counter of the tier that
\* answered
LookupTiers(st, name) ==
    LET Tiers(mapped, outlook) ==
            IF mapped.email # None
            THEN [email |-> mapped.email,
                  st |-> [unmapped |-> mapped.unmapped,
                          stats |-> Bump(st.stats, "mapped"),
                          log |-> st.log \cup {[id |-> name, email |-> mapped.email]}]]
            ELSE [email |-> outlook,
                  st |-> [unmapped |-> mapped.unmapped,
                          stats |-> IF outlook # None
                                    THEN Bump(st.stats, "outlook_resolved")
                                    ELSE Bump(st.stats, "failed"),
                          log |-> st.log \cup {[id |-> name, email |-> outlook]}]]
    IN  Tiers(ResolveEmail(email_mapping, st.unmapped, name), OutlookSearch(name))

\* search_contact_email without the test for an identifier that is already
\* an address
SearchContactEmail_NoPassthrough(st, name) ==
    IF name = <<>> THEN [email |-> None, st |-> st]
    ELSE LookupTiers(st, name)

\* OutlookEmailService.search_contact_email on state st: the address returned
\* and the state after the call
SearchContactEmail(st, name) ==
    IF name = <<>> THEN [email |-> None, st |-> st]
    ELSE IF HasChar(name, AT) /\ HasChar(name, DOT)
    THEN [email |-> Some(name),
          st |-> [st EXCEPT !.log = @ \cup {[id |-> name, email |-> Some(name)]}]]
    ELSE LookupTiers(st, name)

ZeroStats == [mapped |-> 0, outlook_resolved |-> 0, fallback_used |-> 0, failed |-> 0]

\* the "Add CC" loop of send_email: every cc name goes through
\* search_contact_email, the addresses found are kept
RECURSIVE CcLoop(_, _, _)
CcLoop(st, cc_addresses, cc_emails) ==
    IF cc_addresses = <<>> THEN [st |-> st, cc_emails |-> cc_emails]
    ELSE LET Keep(r) ==
                 CcLoop(r.st, Tail(cc_addresses),
                        IF r.email = None \/ r.email = Some(<<>>) THEN cc_emails
                        ELSE Append(cc_emails, TheVal(r.email)))
         IN  Keep(SearchContactEmail(st, Head(cc_addresses)))

\* mail.CC: "; ".join(cc_emails) when an address was found, else not set
MailCC(cc_emails) ==
    IF cc_emails = <<>> THEN None ELSE Some(Join(cc_emails, <<59, 32>>))

\* send_email that hands to_address to Outlook as it is, without resolving it
\* a second time
SendEmail_Direct(st, to_address, cc_addresses, sendok) ==
    IF ~is_connected THEN [ok |-> FALSE, st |-> st, sent |-> <<>>]
    ELSE [ok |-> sendok, st |-> st,
          sent |-> << [To |-> to_address, to_address |-> to_address, ok |-> sendok,
                       CC |-> None] >>]

\* OutlookEmailService.send_email; cc_addresses are the cc names (empty when
\* none are given), sendok is whether Outlook accepts the item.  sent holds
\* the mail item handed to Outlook, if one was created.
SendEmail(st, to_address, cc_addresses, sendok) ==
    IF ~is_connected THEN [ok |-> FALSE, st |-> st, sent |-> <<>>]
    ELSE LET Item(r, cc) ==
                 [ok |-> sendok, st |-> cc.st,
                  sent |-> << [To |-> TheVal(r.email), to_address |-> to_address,
                               ok |-> sendok, CC |-> MailCC(cc.cc_emails)] >>]
             Deliver(r) ==
                 IF r.email = None \/ r.email = Some(<<>>)
                 THEN [ok |-> FALSE, st |-> r.st, sent |-> <<>>]
                 ELSE Item(r, CcLoop(r.st, cc_addresses, <<>>))
         IN  Deliver(SearchContactEmail(st, to_address))

\* email_info.get('cc', [])
CcOf(email_info) == IF "cc" \in DOMAIN email_info THEN email_info.cc ELSE <<>>

\* a loop that gives up at the first message that is not sent
RECURSIVE BulkLoop_StopAtFailure(_, _, _, _)
BulkLoop_StopAtFailure(msgs, outcomes, i, acc) ==
    IF i > Len(msgs) THEN acc
    ELSE LET Count(r) ==
                 [successful |-> acc.successful + (IF r.ok THEN 1 ELSE 0),
                  failed     |-> acc.failed + (IF r.ok THEN 0 ELSE 1),
                  st         |-> r.st,
                  sent       |-> acc.sent \o r.sent]
             Step(r) == IF r.ok
                        THEN BulkLoop_StopAtFailure(msgs, outcomes, i + 1, Count(r))
                        ELSE Count(r)
         IN  Step(SendEmail(acc.st, msgs[i].to, CcOf(msgs[i]), outcomes[i]))

\* the loop of send_bulk_emails from message i on; acc holds the counts, the
\* resolver state and the mail items so far
RECURSIVE BulkLoop(_, _, _, _)
BulkLoop(msgs, outcomes, i, acc) ==
    IF i > Len(msgs) THEN acc
    ELSE LET Count(r) ==
                 [successful |-> acc.successful + (IF r.ok THEN 1 ELSE 0),
                  failed     |-> acc.failed + (IF r.ok THEN 0 ELSE 1),
                  st         |-> r.st,
                  sent       |-> acc.sent \o r.sent]
         IN  BulkLoop(msgs, outcomes, i + 1,
                      Count(SendEmail(acc.st, msgs[i].to, CcOf(msgs[i]), outcomes[i])))

\* send_bulk_emails going on from the counters it finds
SendBulkEmails_NoReset(st, msgs, outcomes) ==
    BulkLoop(msgs, outcomes, 1,
             [successful |-> 0, failed |-> 0, st |-> st, sent |-> <<>>])

\* OutlookEmailService.send_bulk_emails: the statistics are reset, then every
\* message goes through send_email
SendBulkEmails(st, msgs, outcomes) ==
    BulkLoop(msgs, outcomes, 1,
             [successful |-> 0, failed |-> 0,
              st |-> [st EXCEPT !.stats = ZeroStats], sent |-> <<>>])

-----------------------------------------------------------------------------
(* ERFAutomationService                                                    *)

\* the loop of generate_email_data_with_resolution from group i on
RECURSIVE GenerateLoop(_, _, _)
GenerateLoop(groups, i, acc) ==
    IF i > Len(groups) THEN acc
    ELSE LET Entry(r) ==
                 [emails |-> Append(acc.emails,
                               [to |-> groups[i].name,
                                resolved_email |-> r.email,
                                requester_name |-> groups[i].name,
                                item_count |-> NRows(groups[i].group),
                                email_found |-> r.email # None]),
                  st |-> r.st]
         IN  GenerateLoop(groups, i + 1, Entry(SearchContactEmail(acc.st, groups[i].name)))

\* ERFAutomationService.generate_email_data_with_resolution
GenerateEmailData(st) ==
    GenerateLoop(GroupedData, 1, [emails |-> <<>>, st |-> st])

\* sum(1 for email in email_data if email['email_found'])
MappedCount(emails) == Cardinality({i \in 1..Len(emails) : emails[i].email_found})

\* the position list of SelectSeq written out: the found e-mails, in order
RECURSIVE KeepFound(_)
KeepFound(emails) ==
    IF emails = <<>> THEN <<>>
    ELSE IF Head(emails).email_found THEN <<Head(emails)>> \o KeepFound(Tail(emails))
    ELSE KeepFound(Tail(emails))

\* every e-mail, found or not
SendableEmails_All(emails) == emails

\* sendable_emails of send_emails
SendableEmails(emails) == KeepFound(emails)

SetResolver(st) ==
    /\ unmapped_users' = st.unmapped
    /\ resolution_stats' = st.stats
    /\ resolutions' = st.log
    /\ UNCHANGED email_mapping

StatsTotal == resolution_stats.mapped + resolution_stats.outlook_resolved
                + resolution_stats.failed

\* EmailResolver.get_unmapped_users, list(self.unmapped_users): the users in
\* the order the set is iterated, which changes from one run of the
\* interpreter to the next; every order is possible
RECURSIVE GetUnmappedUsers(_)
GetUnmappedUsers(unmapped) ==
    IF unmapped = {} THEN {<<>>}
    ELSE UNION {{<<u>> \o users : users \in GetUnmappedUsers(unmapped \ {u})}
                  : u \in unmapped}

\* an export that writes a single row whatever the list holds
ExportRows_OneRow(users, mode) ==
    IF users = <<>> THEN <<>>
    ELSE << [Username |-> users[1], Mode |-> mode] >>

\* unmapped_data of export_unmapped_users: one row for every user of the list
\* get_unmapped_users returned, in the order of the list
ExportRows(users, mode) ==
    [i \in 1..Len(users) |-> [Username |-> users[i], Mode |-> mode]]

\* ERFAutomationService.export_unmapped_users on the list users that
\* get_unmapped_users returned: None when there is nothing to export or when
\* writing the file raises (writeok is whether to_excel succeeds), else the
\* rows of the file written
ExportUnmappedUsers(users, mode, writeok) ==
    IF users = <<>> THEN None
    ELSE IF ~writeok THEN None
    ELSE Some(ExportRows(users, mode))

\* export_unmapped_users logs "Error exporting unmapped users": there was
\* something to export and writing it raised
ExportError(unmapped, writeok) == unmapped # {} /\ ~writeok

\* the dictionary of counts send_emails and preview_emails report
Counts(emails) ==
    [total_emails |-> Len(emails),
     mapped_count |-> MappedCount(emails),
     unmapped_count |-> Len(emails) - MappedCount(emails)]

\* every send_emails run hands its messages to Outlook
SendsLive_Always(test_mode, confirm) == TRUE

\* send_emails sending also when the confirmation is typed in lower case
SendsLive_AnyCase(test_mode, confirm) ==
    ~test_mode /\ confirm \in {"SEND LIVE", "send live"}

\* send_emails reaches send_bulk_emails: not in preview mode, and only after
\* the operator typed the confirmation
SendsLive(test_mode, confirm) == ~test_mode /\ confirm = "SEND LIVE"

\* ERFAutomationService.send_emails.  confirm is what the operator types at
\* the final confirmation; outcomes are Outlook's answers, one per message.
SendEmails(test_mode, confirm, outcomes, writeok) ==
    \E gen \in {GenerateEmailData(ResolverState)} :
    \E bulk \in {SendBulkEmails(gen.st, SendableEmails(gen.emails), outcomes)} :
    \E counts \in {Counts(gen.emails)} :
    \E users \in (IF SendsLive(test_mode, confirm) THEN GetUnmappedUsers(bulk.st.unmapped)
                  ELSE {<<>>}) :
        /\ email_data' = gen.emails
        /\ UNCHANGED <<workbook, procVars, outlookVars>>
        /\ IF SendsLive(test_mode, confirm)
           THEN /\ SetResolver(bulk.st)
                /\ transport_log' = bulk.sent
           ELSE /\ SetResolver(gen.st)
                /\ transport_log' = <<>>
        /\ ret' = Ret("send_emails",
                      IF test_mode
                      THEN [mode |-> "preview", cancelled |-> FALSE, final_confirm |-> None,
                            successful |-> Len(gen.emails), failed |-> 0,
                            mapped_count |-> counts.mapped_count,
                            unmapped_count |-> counts.unmapped_count,
                            unmapped_users_file |-> None, export_error |-> FALSE]
                      ELSE IF confirm # "SEND LIVE"
                      THEN [mode |-> "live", cancelled |-> TRUE,
                            final_confirm |-> Some(confirm),
                            successful |-> 0, failed |-> 0,
                            mapped_count |-> counts.mapped_count,
                            unmapped_count |-> counts.unmapped_count,
                            unmapped_users_file |-> None, export_error |-> FALSE]
                      ELSE [mode |-> "live", cancelled |-> FALSE,
                            final_confirm |-> Some(confirm),
                            successful |-> bulk.successful, failed |-> bulk.failed,
                            mapped_count |-> counts.mapped_count,
                            unmapped_count |-> counts.unmapped_count,
                            unmapped_users_file |->
                                ExportUnmappedUsers(users, "live", writeok),
                            export_error |-> ExportError(bulk.st.unmapped, writeok)])

\* demo_email_list: one message per demo requester and test address
DemoEmailList(demo_data, test_emails) ==
    [k \in 1..(Len(demo_data) * Len(test_emails)) |->
        [to |-> test_emails[((k - 1) % Len(test_emails)) + 1],
         original_recipient |->
             demo_data[((k - 1) \div Len(test_emails)) + 1].requester_name]]

\* while len(test_emails) < 3
MaxTestEmails == 3

\* the input loop of manager_demo_mode over the lines the operator types:
\* a line is stripped; an empty line ends the loop once an address has been
\* accepted; a line with an "@" is accepted; the loop ends at three addresses
RECURSIVE TestEmailsLoop(_, _)
TestEmailsLoop(typed, test_emails) ==
    IF Len(test_emails) >= MaxTestEmails \/ typed = <<>> THEN test_emails
    ELSE LET Line(email) ==
                 IF email = <<>>
                 THEN IF test_emails # <<>> THEN test_emails
                      ELSE TestEmailsLoop(Tail(typed), test_emails)
                 ELSE IF HasChar(email, AT)
                 THEN TestEmailsLoop(Tail(typed), Append(test_emails, email))
                 ELSE TestEmailsLoop(Tail(typed), test_emails)
         IN  Line(Strip(Head(typed)))

\* a demo that takes every requester
DemoData_All(emails) == emails

\* demo_data = email_data[:5]
DemoData(emails) == SubSeq(emails, 1, Min(5, Len(emails)))

\* ERFAutomationService.manager_demo_mode.  typed are the lines the operator
\* types at the test address prompts; confirm is the y/n answer.
ManagerDemoMode(typed, confirm, outcomes, writeok) ==
    \E test_emails \in {TestEmailsLoop(typed, <<>>)} :
    \E gen \in {GenerateEmailData(ResolverState)} :
    \E bulk \in {SendBulkEmails(gen.st, DemoEmailList(DemoData(gen.emails), test_emails),
                                outcomes)} :
    \E users \in (IF gen.emails # <<>> /\ confirm THEN GetUnmappedUsers(bulk.st.unmapped)
                  ELSE {<<>>}) :
        /\ email_data' = gen.emails
        /\ UNCHANGED <<workbook, procVars, outlookVars>>
        /\ IF gen.emails = <<>>
           THEN /\ SetResolver(gen.st)
                /\ transport_log' = <<>>
                /\ ret' = Ret("manager_demo_mode",
                              [error |-> TRUE, cancelled |-> FALSE, successful |-> 0,
                               failed |-> 0, test_addresses |-> <<>>,
                               unmapped_users_file |-> None, export_error |-> FALSE])
           ELSE IF ~confirm
           THEN /\ SetResolver(gen.st)
                /\ transport_log' = <<>>
                /\ ret' = Ret("manager_demo_mode",
                              [error |-> FALSE, cancelled |-> TRUE, successful |-> 0,
                               failed |-> 0, test_addresses |-> <<>>,
                               unmapped_users_file |-> None, export_error |-> FALSE])
           ELSE /\ SetResolver(bulk.st)
                /\ transport_log' = bulk.sent
                /\ ret' = Ret("manager_demo_mode",
                              [error |-> FALSE, cancelled |-> FALSE,
                               successful |-> bulk.successful, failed |-> bulk.failed,
                               test_addresses |-> test_emails,
                               unmapped_users_file |->
                                   ExportUnmappedUsers(users, "demo", writeok),
                               export_error |-> ExportError(bulk.st.unmapped, writeok)])

\* OutlookEmailService.connect: ok is whether Outlook can be dispatched, gal
\* the Global Address List it gives access to (None when it cannot be opened,
\* which leaves address_book as it was)
Connect(ok, gal) ==
    /\ is_connected' = ok
    /\ address_book' = IF ok /\ gal # None THEN gal ELSE address_book
    /\ ret' = Ret("connect", ok)
    /\ UNCHANGED <<workbook, procVars, resolverVars, email_data, transport_log>>

\* a call, its argument and what it returned
RetOf(op, arg, val) == [op |-> op, arg |-> arg, val |-> val]

\* a call of search_contact_email (test_email_resolution, one name)
SearchContactEmailCall(name) ==
    \E r \in {SearchContactEmail(ResolverState, name)} :
    /\ SetResolver(r.st)
    /\ ret' = RetOf("search_contact_email", name, r.email)
    /\ UNCHANGED <<workbook, procVars, outlookVars, email_data, transport_log>>

\* a call of EmailResolver.resolve_email
ResolveEmailCall(username) ==
    \E r \in {ResolveEmail(email_mapping, unmapped_users, username)} :
    /\ unmapped_users' = r.unmapped
    /\ ret' = RetOf("resolve_email", username, r.email)
    /\ UNCHANGED <<workbook, procVars, outlookVars, email_data, transport_log,
                   email_mapping, resolution_stats, resolutions>>

\* self.email_mapping[key] = value: an existing key keeps its place in the
\* dict, a new key goes to the end
Put(m, key, value) ==
    IF \E i \in 1..Len(m) : m[i].key = key
    THEN [i \in 1..Len(m) |-> IF m[i].key = key THEN [key |-> key, email |-> value]
                              ELSE m[i]]
    ELSE Append(m, [key |-> key, email |-> value])

\* add_manual_mapping storing the address as given instead of email.strip()
AddManualMapping_NoStrip(m, unmapped, username, email) ==
    IF username # <<>> /\ email # <<>> /\ HasChar(email, AT)
    THEN [mapping |-> Put(m, Upper(Strip(username)), email),
          unmapped |-> unmapped \ {username}]
    ELSE [mapping |-> m, unmapped |-> unmapped]

\* add_manual_mapping without the test of the address
AddManualMapping_NoCheck(m, unmapped, username, email) ==
    IF username # <<>> /\ email # <<>>
    THEN [mapping |-> Put(m, Upper(Strip(username)), Strip(email)),
          unmapped |-> unmapped \ {username}]
    ELSE [mapping |-> m, unmapped |-> unmapped]

\* EmailResolver.add_manual_mapping: the mapping and unmapped_users after it
AddManualMapping(m, unmapped, username, email) ==
    IF username # <<>> /\ email # <<>> /\ HasChar(email, AT)
    THEN [mapping |-> Put(m, Upper(Strip(username)), Strip(email)),
          unmapped |-> unmapped \ {username}]
    ELSE [mapping |-> m, unmapped |-> unmapped]

\* a call of EmailResolver.add_manual_mapping
AddManualMappingCall(username, email) ==
    \E r \in {AddManualMapping(email_mapping, unmapped_users, username, email)} :
    /\ email_mapping' = r.mapping
    /\ unmapped_users' = r.unmapped
    /\ ret' = RetOf("add_manual_mapping", [username |-> username, email |-> email], None)
    /\ UNCHANGED <<workbook, procVars, outlookVars, email_data, transport_log,
                   resolution_stats, resolutions>>

ENG == <<69, 78, 71>>   \* "ENG"

\* valid_rows of _load_mapping_fast, for one row of the mapping file
ValidMappingRow(row) ==
    /\ ~IsNa(row.eng)
    /\ ~IsNa(row.email)
    /\ HasChar(Str(row.email), AT)
    /\ Strip(Str(row.eng)) # <<>>
    /\ Upper(Str(row.eng)) # ENG

\* dict(zip(eng_ids, emails)) over the valid rows, from row i on
RECURSIVE LoadMappingLoop(_, _, _)
LoadMappingLoop(rows, i, m) ==
    IF i > Len(rows) THEN m
    ELSE LoadMappingLoop(rows, i + 1,
             IF ValidMappingRow(rows[i])
             THEN Put(m, Upper(Strip(Str(rows[i].eng))), Strip(Str(rows[i].email)))
             ELSE m)

\* df[col].dropna().head(3): the rows of the first three cells of column j
\* that are not NaN
SampleRows(df, j) ==
    LET filled == {i \in 1..NRows(df) : ~IsNa(df.rows[i][j])}
    IN  {i \in filled : Cardinality({k \in filled : k < i}) < 3}

\* the e-mail column _load_mapping_fast detects: the first column whose name
\* holds an "@", else the first column after the identifier column with an
\* "@" in its sample, else 0 (none)
EmailColumn(df) ==
    LET byName == {j \in 1..NCols(df) : HasChar(Str(df.columns[j]), AT)}
        byData == {j \in 2..NCols(df) :
                     \E i \in SampleRows(df, j) : HasChar(Str(df.rows[i][j]), AT)}
        First(S) == IF S = {} THEN 0 ELSE CHOOSE j \in S : \A h \in S : j <= h
    IN  IF byName # {} THEN First(byName) ELSE First(byData)

\* EmailResolver._load_mapping_fast.  file is None when the mapping file does
\* not exist, else whether pd.read_excel succeeds and the frame it gives.
\* A missing file, a read error (also df.columns[0] on a frame without
\* columns) and a frame without e-mail column leave the mapping empty.
LoadMappingFast(file) ==
    IF file = None THEN <<>>
    ELSE IF ~TheVal(file).readable \/ NCols(TheVal(file).df) = 0 THEN <<>>
    ELSE LET Load(df, col) ==
                 IF col = 0 THEN <<>>
                 ELSE LoadMappingLoop([i \in 1..NRows(df) |->
                                          [eng |-> df.rows[i][1], email |-> df.rows[i][col]]],
                                      1, <<>>)
         IN  Load(TheVal(file).df, EmailColumn(TheVal(file).df))

\* the loop of load_manual_mappings over the rows of the file, from row i on
RECURSIVE LoadManualLoop(_, _, _)
LoadManualLoop(rows, i, acc) ==
    IF i > Len(rows) THEN acc
    ELSE LET Row(username, email) ==
                 IF username # <<>> /\ email # <<>> /\ HasChar(email, AT)
                 THEN AddManualMapping(acc.mapping, acc.unmapped, username, email)
                 ELSE acc
         IN  LoadManualLoop(rows, i + 1,
                            Row(Strip(Str(rows[i].Username)), Strip(Str(rows[i].Email))))

\* EmailResolver.load_manual_mappings; file is None when the path does not
\* exist, else the rows of its Username and Email columns
LoadManualMappings(m, unmapped, file) ==
    IF file = None THEN [mapping |-> m, unmapped |-> unmapped]
    ELSE LoadManualLoop(TheVal(file), 1, [mapping |-> m, unmapped |-> unmapped])

\* a call of EmailResolver.load_manual_mappings
LoadManualMappingsCall(file) ==
    \E r \in {LoadManualMappings(email_mapping, unmapped_users, file)} :
    /\ email_mapping' = r.mapping
    /\ unmapped_users' = r.unmapped
    /\ ret' = RetOf("load_manual_mappings", file, None)
    /\ UNCHANGED <<workbook, procVars, outlookVars, email_data, transport_log,
                   resolution_stats, resolutions>>

\* a loop that keeps only the misses of the current list
RECURSIVE BulkResolveEmails_Replace(_, _, _)
BulkResolveEmails_Replace(m, unmapped, usernames) ==
    IF usernames = <<>> THEN {}
    ELSE LET Miss(e, rest) == IF e = 0 THEN rest \cup {Head(usernames)} ELSE rest
         IN  Miss(FirstExact(m, Upper(Strip(Head(usernames)))),
                  BulkResolveEmails_Replace(m, unmapped, Tail(usernames)))

\* EmailResolver.bulk_resolve_emails: unmapped_users after the call.  Every
\* name whose cleaned form is not a key of the mapping is added.
RECURSIVE BulkResolveEmails(_, _, _)
BulkResolveEmails(m, unmapped, usernames) ==
    IF usernames = <<>> THEN unmapped
    ELSE LET Miss(e, rest) == IF e = 0 THEN rest \cup {Head(usernames)} ELSE rest
         IN  Miss(FirstExact(m, Upper(Strip(Head(usernames)))),
                  BulkResolveEmails(m, unmapped, Tail(usernames)))

\* results of bulk_resolve_emails: the address of each name, by exact key only
BulkResults(m, usernames) ==
    [i \in 1..Len(usernames) |->
        LET Get(e) == IF e = 0 THEN None ELSE Some(m[e].email)
        IN  Get(FirstExact(m, Upper(Strip(usernames[i]))))]

\* a call of EmailResolver.bulk_resolve_emails
BulkResolveEmailsCall(usernames) ==
    /\ unmapped_users' = BulkResolveEmails(email_mapping, unmapped_users, usernames)
    /\ ret' = RetOf("bulk_resolve_emails", usernames, BulkResults(email_mapping, usernames))
    /\ UNCHANGED <<workbook, procVars, outlookVars, email_data, transport_log,
                   email_mapping, resolution_stats, resolutions>>

\* a call of ERFAutomationService.export_unmapped_users
ExportUnmappedUsersCall(mode, writeok) ==
    \E users \in GetUnmappedUsers(unmapped_users) :
    /\ ret' = RetOf("export_unmapped_users", mode,
                    ExportUnmappedUsers(users, mode, writeok))
    /\ UNCHANGED <<workbook, procVars, svcVars>>

\* a call of OutlookEmailService.send_email on its own: the counters go on
\* from where they are
SendEmailCall(to_address, cc_addresses, sendok) ==
    \E r \in {SendEmail(ResolverState, to_address, cc_addresses, sendok)} :
    /\ SetResolver(r.st)
    /\ transport_log' = transport_log \o r.sent
    /\ ret' = [op |-> "send_email", arg |-> to_address, cc |-> cc_addresses,
               val |-> r.ok]
    /\ UNCHANGED <<workbook, procVars, outlookVars, email_data>>

\* the messages with the given recipients and cc names; a message without
\* cc names has no 'cc' key
Messages(names, ccs) ==
    [i \in 1..Len(names) |->
        IF ccs[i] = <<>> THEN [to |-> names[i]] ELSE [to |-> names[i], cc |-> ccs[i]]]

\* a call of OutlookEmailService.send_bulk_emails on a list of messages to
\* names, message i with the cc names ccs[i]
SendBulkEmailsCall(names, ccs, outcomes) ==
    \E bulk \in {SendBulkEmails(ResolverState, Messages(names, ccs), outcomes)} :
    /\ SetResolver(bulk.st)
    /\ transport_log' = bulk.sent
    /\ ret' = [op |-> "send_bulk_emails", arg |-> names, cc |-> ccs,
               val |-> [successful |-> bulk.successful, failed |-> bulk.failed]]
    /\ UNCHANGED <<workbook, procVars, outlookVars, email_data>>

\* ERFAutomationService.process_excel_file: load, filter, group, stopping at
\* the first stage that fails
ProcessExcelFile(valid) ==
    \E r \in {FindDataSheet(workbook)} :
    \E fd \in {IF r.found THEN Take(TheVal(r.data), StatusFilter(TheVal(r.data)))
               ELSE [columns |-> <<>>, index |-> <<>>, rows |-> <<>>]} :
    \E clean \in {IF HasColumn(fd, COL_ENTERED_BY) THEN CleanData(fd) ELSE fd} :
        /\ UNCHANGED <<svcVars, workbook>>
        /\ IF ~valid \/ ~r.found
           THEN /\ ret' = Ret("process_excel_file", FALSE)
                /\ UNCHANGED procVars
           ELSE /\ raw_data' = r.data
                /\ selected_sheet' = r.sheet
                /\ filtered_data' = Some(fd)
                /\ IF NRows(fd) = 0 \/ NRows(clean) = 0
                   THEN /\ ret' = Ret("process_excel_file", FALSE)
                        /\ UNCHANGED grouped_data
                   ELSE /\ ret' = Ret("process_excel_file", TRUE)
                        /\ grouped_data' = Some([obj |-> clean, by |-> COL_ENTERED_BY])

-----------------------------------------------------------------------------
(* Inputs                                                                  *)

MaxSheets == 2
MaxRows == 3

\* a frame as read_excel builds it: RangeIndex 0..n-1
MkFrame(cols, rows) ==
    [columns |-> cols, index |-> [i \in 1..Len(rows) |-> i - 1], rows |-> rows]

\* sheet names "S1", "S2", ...
SheetName(i) == <<83, 48 + i>>

MkWorkbook(frames) ==
    [i \in 1..Len(frames) |-> [name |-> SheetName(i), df |-> frames[i]]]

CX == <<120>>                                               \* "x"
C_count == <<99, 111, 117, 110, 116>>                       \* "count"
C_of == <<111, 102>>                                        \* "of"
C_GrandTotal == <<71, 114, 97, 110, 100, 32, 84, 111, 116, 97, 108>>  \* "Grand Total"
UnnamedCol(j) == UNNAMED \o <<32, 48 + j>>                  \* "Unnamed: j"
COL_ENTERED_BY_SP == COL_ENTERED_BY \o SPACE                \* "Entered by "

CL_Min == << COL_STATUS, COL_ENTERED_BY >>
CL_Plnt == << K_Plnt, COL_ENTERED_BY, COL_STATUS >>
CL_Unnamed == << COL_STATUS, COL_ENTERED_BY, UnnamedCol(2), UnnamedCol(3),
                 UnnamedCol(4), UnnamedCol(5), UnnamedCol(6) >>
CL_NoEntered == << COL_STATUS, K_Plnt, K_Item, K_Unit >>

\* 90 columns of which 63 are "Unnamed: jj": exactly 70%
WideCol(j) ==
    IF j = 1 THEN COL_STATUS
    ELSE IF j = 2 THEN COL_ENTERED_BY
    ELSE IF j <= 27 THEN <<99, 48 + (j \div 10), 48 + (j % 10)>>
    ELSE UNNAMED \o <<32, 48 + (j \div 10), 48 + (j % 10)>>
CL_Wide == [j \in 1..90 |-> WideCol(j)]
CL_EnteredSp == << COL_STATUS, COL_ENTERED_BY_SP, K_Plnt, K_Item >>

RowKinds == {"data", "blank", "marker", "split"}

\* the first row of a sheet of each kind; the other rows hold "x"
FirstRow(nc, kind) ==
    [j \in 1..nc |->
        CASE kind = "blank" -> NaN
          [] kind = "marker" /\ j = 1 -> C_GrandTotal
          [] kind = "split" /\ j = 1 -> C_count
          [] kind = "split" /\ j = 2 -> C_of
          [] OTHER -> CX]

MkSheet(cols, nr, kind) ==
    MkFrame(cols, [i \in 1..nr |->
                     IF i = 1 THEN FirstRow(Len(cols), kind)
                     ELSE [j \in 1..Len(cols) |-> CX]])

\* sheets of every kind and length under the two mandatory columns, ordinary
\* and marked sheets with an extra required column, sheets with mostly
\* unnamed columns, and sheets that lack 'Entered by'
SelectFrames ==
    {MkSheet(CL_Min, n, k) : n \in 0..MaxRows, k \in RowKinds}
    \cup {MkSheet(CL_Plnt, n, k) : n \in 1..MaxRows, k \in {"data", "marker"}}
    \cup {MkSheet(CL_Unnamed, n, "data") : n \in 1..MaxRows}
    \cup {MkSheet(c, MaxRows, "data") : c \in {CL_NoEntered, CL_EnteredSp}}

\* a workbook whose only sheet has exactly 70% of 'Unnamed:' columns
WideWorkbooks == { MkWorkbook(<< MkSheet(CL_Wide, MaxRows, "data") >>) }

\* the workbooks of 1 to maxSheets sheets drawn from frames
WorkbooksOf(frames, maxSheets) ==
    UNION {{MkWorkbook(f) : f \in [1..n -> frames]} : n \in 1..maxSheets}

MaxDataRows == 3

ST_on_order == <<111, 110, 32, 111, 114, 100, 101, 114>>   \* "on order"
ST_OnOrder_SP == ST_OnOrder \o SPACE                        \* "On order "
U_A == <<65>>            \* "A"
U_B == <<66>>            \* "B"
U_a == <<97>>            \* "a"
U_A_SP == <<65, 32>>     \* "A "

\* rows of a data sheet: (status, entered by)
DataRows ==
    { <<ST_OnOrder, U_B>>, <<ST_Received, U_A>>, <<ST_OnOrder, U_A_SP>>,
      <<ST_on_order, U_A>>, <<ST_OnOrder_SP, U_B>>, <<ST_OnOrder, NaN>>,
      <<ST_Received, SPACE>>, <<NaN, U_A>>, <<ST_OnOrder, U_a>> }

\* the workbooks of one data sheet of 0 to maxRows rows drawn from rows
DataWorkbooksOf(rows, maxRows) ==
    UNION {{MkWorkbook(<<MkFrame(CL_Min, r)>>) : r \in [1..n -> rows]}
             : n \in 0..maxRows}

InitProcessor ==
    /\ raw_data = None
    /\ filtered_data = None
    /\ grouped_data = None
    /\ selected_sheet = None
    /\ ret = Ret("init", None)

\* the service as constructed, with the given mapping loaded
InitService(m) ==
    /\ email_mapping = m
    /\ unmapped_users = {}
    /\ resolution_stats = ZeroStats
    /\ is_connected = FALSE
    /\ address_book = None
    /\ email_data = <<>>
    /\ transport_log = <<>>
    /\ resolutions = {}
    /\ pc = "start"
    /\ calls = 0
    /\ exit_status = None

InitSelect ==
    /\ workbook \in WorkbooksOf(SelectFrames, MaxSheets) \cup WideWorkbooks
    /\ InitProcessor
    /\ InitService(<<>>)

NextSelect ==
    \/ FindDataSheetCall /\ UNCHANGED <<pc, calls, exit_status>>
    \/ \E i \in 1..Len(workbook) :
          ScoreSheetCall(i) /\ UNCHANGED <<pc, calls, exit_status>>
    \/ \E i \in 1..Len(workbook) :
          IsRealPivotTableCall(i) /\ UNCHANGED <<pc, calls, exit_status>>

SpecSelect == InitSelect /\ [][NextSelect]_vars

InitData ==
    /\ workbook \in DataWorkbooksOf(DataRows, MaxDataRows)
    /\ InitProcessor
    /\ InitService(<<>>)

NextData ==
    \/ \E valid \in BOOLEAN : LoadFile(valid) /\ UNCHANGED <<pc, calls, exit_status>>
    \/ FilterData /\ UNCHANGED <<pc, calls, exit_status>>
    \/ GroupByRequester /\ UNCHANGED <<pc, calls, exit_status>>
    \/ GetGroupedData /\ UNCHANGED <<pc, calls, exit_status>>

SpecData == InitData /\ [][NextData]_vars

MaxGroups == 3
MaxResolutions == 2
MaxCalls == 3

A_ab == <<97, 98, 64, 108, 46, 99>>    \* "ab@l.c"
A_b == <<98, 64, 108, 46, 99>>         \* "b@l.c"
A_zz == <<122, 122, 64, 108, 46, 99>>  \* "zz@l.c"
ID_AB == <<65, 66>>                    \* "AB"
ID_ab_sp == <<97, 98, 32>>             \* "ab "
ID_B == <<66>>                         \* "B"
ID_ZZ == <<90, 90>>                    \* "ZZ"
ID_Q == <<81>>                         \* "Q"
ID_addr == <<120, 64, 121, 46, 122>>   \* "x@y.z"
T_ok == <<116, 64, 120, 46, 121>>      \* "t@x.y"
T_nodot == <<97, 98, 64, 108>>         \* "ab@l"
N_zed == <<90, 101, 100, 32, 90, 90>>  \* "Zed ZZ"
N_q == <<81, 32, 79, 108, 100>>        \* "Q Old"

E_eng == <<69, 110, 103>>              \* "Eng"
A_q == <<113, 64, 108, 46, 99>>        \* "q@l.c"
A_q_sp == <<32, 113, 64, 108, 46, 99>> \* " q@l.c"
A_noat == <<113, 46, 108, 46, 99>>     \* "q.l.c"

\* a mapping file that exists: whether it can be read, its columns and rows
MappingFile(readable, cols, rows) ==
    Some([readable |-> readable, df |-> [columns |-> cols, rows |-> rows]])

\* mapping sources that leave the resolver without mapping: no file, a file
\* that cannot be read, a sheet without columns, a sheet without any "@", and
\* a sheet whose only address comes after the three sampled cells
DegradedFiles ==
    { None,
      MappingFile(FALSE, <<E_eng, ID_ZZ>>, << <<ID_ab_sp, A_ab>> >>),
      MappingFile(TRUE, <<>>, <<>>),
      MappingFile(TRUE, <<E_eng, ID_ZZ>>, << <<ID_ab_sp, N_zed>>, <<ID_B, A_noat>> >>),
      MappingFile(TRUE, <<E_eng, ID_ZZ>>,
                  << <<ID_Q, A_noat>>, <<ID_Q, N_q>>, <<ID_Q, NaN>>, <<ID_Q, A_noat>>,
                     <<ID_Q, A_q>> >>) }

\* mapping files: the degraded ones; one row; rows of which the header-like
\* one, the one without "@" and the one without identifier are not accepted
MappingFiles ==
    DegradedFiles \cup
    { MappingFile(TRUE, <<E_eng, ID_ZZ>>, << <<ID_ab_sp, A_ab>> >>),
      MappingFile(TRUE, <<E_eng, ID_Q, ID_ZZ>>,
                  << <<ID_ab_sp, N_zed, A_ab>>, <<E_eng, N_zed, A_zz>>,
                     <<ID_B, N_q, A_b \o SPACE>>, <<ID_Q, N_q, A_noat>>,
                     <<NaN, N_zed, A_zz>> >>) }

\* the mappings _load_mapping_fast builds from them: none, AB, AB and B
Mappings == {LoadMappingFast(f) : f \in MappingFiles}

\* files of manual mappings: missing, or rows of Username and Email
ManualFiles ==
    { None,
      Some(<< [Username |-> ID_ab_sp, Email |-> A_q_sp], [Username |-> ID_ZZ, Email |-> NaN],
              [Username |-> ID_Q, Email |-> A_noat] >>) }

\* arguments of add_manual_mapping
ManualUsernames == {<<>>, SPACE, ID_Q, ID_ab_sp}
ManualAddresses == {A_q, A_q_sp, A_noat}

\* arguments of resolve_email
Usernames == {<<>>, SPACE, TAB_SP, ID_ab_sp, ID_B, ID_Q, T_nodot}

\* lists given to bulk_resolve_emails and to send_bulk_emails
NameLists == { <<ID_ab_sp, ID_Q>>, <<ID_B, ID_ZZ, ID_addr>> }

\* the cc names of the messages to names: none, or, for a batch of two, "ZZ"
\* on the first message and "Q" and "ab " on the second
CcsFor(names) ==
    { [i \in 1..Len(names) |-> <<>>] }
      \cup (IF Len(names) = 2
            THEN { [i \in 1..Len(names) |->
                       IF i = 1 THEN <<ID_ZZ>> ELSE <<ID_Q, ID_ab_sp>>] }
            ELSE {})

\* Global Address Lists: "Zed ZZ" is an Exchange user, "Q Old" is not
AddressBooks ==
    { None,
      Some(<< [Name |-> N_zed, smtp |-> Some(A_zz)], [Name |-> N_q, smtp |-> None] >>) }

Identifiers == {<<>>, ID_ab_sp, ID_B, ID_ZZ, ID_Q, ID_addr}

\* the recipient and the cc names given to send_email: recipients without
\* cc names, and recipients with cc names
SendInputs ==
    { [to |-> id, cc |-> <<>>] : id \in {<<>>, ID_ab_sp, ID_Q, ID_addr} }
      \cup { [to |-> ID_ab_sp, cc |-> <<ID_Q>>],
             [to |-> ID_addr, cc |-> <<ID_ab_sp, ID_ZZ>>] }

GroupKeyPool == {ID_AB, ID_ZZ, ID_Q, ID_addr}
TestAddresses == {T_ok, T_nodot}

\* what the operator types at the test address prompts: every list ends the
\* input loop, with an empty line or with a third address
TypedLines ==
    { <<T_ok, <<>>>>,
      <<T_nodot, <<>>>>,
      << <<>>, A_noat, SPACE \o T_nodot \o SPACE, T_ok, SPACE, T_ok >>,
      <<T_ok, T_nodot, T_ok, ID_addr>> }

\* more requesters than a demo takes
ManyKeys == GroupKeyPool \cup {U_A, U_B}

\* a sequence listing the elements of a set of str
SeqOf(S) == SortKeys(S)

\* one data sheet with one 'On order' row per requester
DispatchWorkbooks ==
    { MkWorkbook(<< MkFrame(CL_Min,
                      [i \in 1..Len(SeqOf(K)) |-> <<ST_OnOrder, SeqOf(K)[i]>>]) >>)
        : K \in {K \in SUBSET GroupKeyPool : Cardinality(K) \in 1..MaxGroups}
                  \cup {ManyKeys} }

\* workbooks on which a stage fails: no sheet with both mandatory columns,
\* no row with a target status, no row with a usable 'Entered by'
FailingWorkbooks ==
    { MkWorkbook(<< MkSheet(CL_NoEntered, 1, "data") >>),
      MkWorkbook(<< MkFrame(CL_Min, << <<ST_on_order, U_A>> >>) >>),
      MkWorkbook(<< MkFrame(CL_Min, << <<ST_OnOrder, SPACE>>, <<ST_Received, NaN>> >>) >>) }

\* what the operator types at the final confirmation of live mode
Confirmations == {"SEND LIVE", "send live", "SEND LIVE ", ""}

\* Outlook's answers to n messages: all accepted, none, every other one
Outcomes(n) ==
    { [i \in 1..n |-> TRUE], [i \in 1..n |-> FALSE],
      [i \in 1..n |-> i % 2 = 0], [i \in 1..n |-> i % 2 = 1] }

\* the resolver and the Outlook service on their own: any sequence of calls
InitResolve ==
    /\ workbook = <<>>
    /\ InitProcessor
    /\ \E m \in Mappings : InitService(m)

\* one more call of the client, which makes at most MaxCalls of them
OneCall == calls < MaxCalls /\ calls' = calls + 1 /\ UNCHANGED <<pc, exit_status>>

NextResolve ==
    \/ \E ok \in BOOLEAN, gal \in AddressBooks : Connect(ok, gal) /\ OneCall
    \/ \E name \in Identifiers :
          /\ StatsTotal < MaxResolutions
          /\ SearchContactEmailCall(name)
          /\ OneCall
    \/ \E name \in Usernames : ResolveEmailCall(name) /\ OneCall
    \/ \E username \in ManualUsernames, email \in ManualAddresses :
          AddManualMappingCall(username, email) /\ OneCall
    \/ \E file \in ManualFiles : LoadManualMappingsCall(file) /\ OneCall
    \/ \E usernames \in NameLists : BulkResolveEmailsCall(usernames) /\ OneCall
    \/ \E writeok \in BOOLEAN : ExportUnmappedUsersCall("demo", writeok) /\ OneCall
    \/ \E names \in NameLists, outcomes \in Outcomes(MaxGroups) :
       \E ccs \in CcsFor(names) :
          /\ StatsTotal < MaxResolutions
          /\ SendBulkEmailsCall(names, ccs, outcomes)
          /\ OneCall
    \/ \E inp \in SendInputs, sendok \in BOOLEAN :
          /\ StatsTotal < MaxResolutions
          /\ SendEmailCall(inp.to, inp.cc, sendok)
          /\ OneCall

SpecResolve == InitResolve /\ [][NextResolve]_vars

\* main(): one run of the command
Init ==
    /\ workbook \in DispatchWorkbooks \cup FailingWorkbooks
    /\ InitProcessor
    /\ \E m \in Mappings : InitService(m)

\* the status of the process once main() has ended.  main returns None at
\* every return statement and its caller passes nothing to sys.exit, so the
\* interpreter ends with status 0; an exception that leaves main, raised
\* before the try block, ends the process with a traceback and status 1;
\* a KeyboardInterrupt that leaves main makes the interpreter end the
\* process by SIGINT: there is no exit status, the parent process reads the
\* signal, written here as -2 (a shell shows 130)
ExitStatus(returned) ==
    IF returned = "interrupted" THEN -2
    ELSE IF returned = "raised" THEN 1
    ELSE 0

\* how main leaves its first lines: prompted is whether no path was given on
\* the command line, so that input() asks for one; raised is what is raised
\* outside the try block, if anything: "interrupt" is a KeyboardInterrupt
\* (while input() waits, or at any other line before the try block), "eof"
\* is the end of the input at the prompt, "constructor" an exception of the
\* constructor of the service
MainStartOutcome(prompted, exists, raised) ==
    IF raised = "interrupt" THEN "interrupted"
    ELSE IF prompted /\ raised = "eof" THEN "raised"
    ELSE IF ~exists THEN "file_not_found"
    ELSE IF raised = "constructor" THEN "raised"
    ELSE "constructed"

\* main: the input path is read and checked, then the service is constructed
MainStart(prompted, exists, raised) ==
    \E returned \in {MainStartOutcome(prompted, exists, raised)} :
    /\ pc = "start"
    /\ raised = "eof" => prompted
    /\ pc' = IF returned = "constructed" THEN "initialize" ELSE "exit"
    /\ UNCHANGED calls
    /\ exit_status' = IF pc' = "exit" THEN Some(ExitStatus(returned)) ELSE None
    /\ ret' = IF returned = "raised" THEN Ret("main_raised", FALSE)
              ELSE IF returned = "interrupted" THEN Ret("main_interrupted", FALSE)
              ELSE Ret("main", exists)
    /\ UNCHANGED <<workbook, procVars, svcVars>>

\* main step 1: ERFAutomationService.initialize, which connects to Outlook
MainInitialize(ok, gal) ==
    /\ pc = "initialize"
    /\ Connect(ok, gal)
    /\ pc' = IF ok THEN "process" ELSE "exit"
    /\ UNCHANGED calls
    /\ exit_status' = IF pc' = "exit" THEN Some(ExitStatus("initialize_failed")) ELSE None

\* main goes on to the preview whatever process_excel_file returned
MainProcess_Continue(valid) ==
    /\ pc = "process"
    /\ ProcessExcelFile(valid)
    /\ pc' = "preview"
    /\ UNCHANGED calls
    /\ exit_status' = IF pc' = "exit" THEN Some(ExitStatus("process_failed")) ELSE None

\* main step 2: process_excel_file
MainProcess(valid) ==
    /\ pc = "process"
    /\ ProcessExcelFile(valid)
    /\ pc' = IF ret'.val THEN "preview" ELSE "exit"
    /\ UNCHANGED calls
    /\ exit_status' = IF pc' = "exit" THEN Some(ExitStatus("process_failed")) ELSE None

\* main step 4: ERFAutomationService.preview_emails
PreviewEmails ==
    \E gen \in {GenerateEmailData(ResolverState)} :
    /\ SetResolver(gen.st)
    /\ email_data' = gen.emails
    /\ ret' = Ret("preview_emails", Counts(gen.emails))
    /\ UNCHANGED <<workbook, procVars, outlookVars, transport_log>>

MainPreview ==
    /\ pc = "preview"
    /\ PreviewEmails
    /\ pc' = "mode"
    /\ UNCHANGED calls
    /\ exit_status' = None

\* main step 5, mode 1 and mode 3: send_emails
MainSendEmails(test_mode, confirm, outcomes, writeok) ==
    /\ pc = "mode"
    /\ SendEmails(test_mode, confirm, outcomes, writeok)
    /\ pc' = "exit"
    /\ UNCHANGED calls
    /\ exit_status' = IF pc' = "exit" THEN Some(ExitStatus("completed")) ELSE None

\* main step 5, mode 2: manager_demo_mode
MainDemo(typed, confirm, outcomes, writeok) ==
    /\ pc = "mode"
    /\ ManagerDemoMode(typed, confirm, outcomes, writeok)
    /\ pc' = "exit"
    /\ UNCHANGED calls
    /\ exit_status' = IF pc' = "exit" THEN Some(ExitStatus("completed")) ELSE None

\* main step 5, any other input: "Invalid mode selection"
MainInvalidMode ==
    /\ pc = "mode"
    /\ pc' = "exit"
    /\ UNCHANGED calls
    /\ exit_status' = IF pc' = "exit" THEN Some(ExitStatus("invalid_mode")) ELSE None
    /\ ret' = Ret("main", FALSE)
    /\ UNCHANGED <<workbook, procVars, svcVars>>

Next ==
    \/ \E prompted \in BOOLEAN, exists \in BOOLEAN,
          raised \in {"none", "eof", "interrupt", "constructor"} :
          MainStart(prompted, exists, raised)
    \/ \E ok \in BOOLEAN, gal \in AddressBooks : MainInitialize(ok, gal)
    \/ \E valid \in BOOLEAN : MainProcess(valid)
    \/ MainPreview
    \/ \E test_mode \in BOOLEAN, confirm \in Confirmations,
          outcomes \in Outcomes(Len(GroupedData)), writeok \in BOOLEAN :
          MainSendEmails(test_mode, confirm, outcomes, writeok)
    \/ \E typed \in TypedLines, confirm \in BOOLEAN,
          outcomes \in Outcomes(Len(GroupedData) * MaxTestEmails), writeok \in BOOLEAN :
          MainDemo(typed, confirm, outcomes, writeok)
    \/ MainInvalidMode

Spec == Init /\ [][Next]_vars

-----------------------------------------------------------------------------
(* Sheet selection: C1 - C4                                                *)

Found == ret.op = "find_data_sheet" /\ ret.val.found
NotFound ==
    /\ ret.op = "find_data_sheet"
    /\ ret.val = [found |-> FALSE, sheet |-> None, data |-> None]

\* sheet i of the workbook is the one find_data_sheet returned
Returned(i) ==
    /\ Found
    /\ ret.val.sheet = Some(workbook[i].name)
    /\ ret.val.data = Some(workbook[i].df)

Sheets == 1..Len(workbook)

\* the three pivot conditions as the specification words them
ManyUnnamed(df) ==
    10 * Cardinality({j \in 1..NCols(df) : Contains(df.columns[j], UNNAMED)})
        > 7 * NCols(df)
FirstRowMostlyEmpty(df) ==
    /\ NRows(df) >= 1
    /\ 10 * Cardinality({j \in 1..NCols(df) : IsNa(df.rows[1][j])}) > 8 * NCols(df)
MarkerInSomeCell(df) ==
    \E i \in 1..Min(5, NRows(df)), j \in 1..Min(5, NCols(df)),
       k \in 1..Len(pivot_indicators) :
        Contains(Lower(Str(df.rows[i][j])), pivot_indicators[k])
MeetsPivotCondition(df) ==
    ManyUnnamed(df) \/ FirstRowMostlyEmpty(df) \/ MarkerInSomeCell(df)

HasBothMandatory(df) ==
    /\ \E j \in 1..NCols(df) : df.columns[j] = COL_STATUS
    /\ \E j \in 1..NCols(df) : df.columns[j] = COL_ENTERED_BY

\* C1 as claimed: find_data_sheet never returns a sheet that meets a pivot
\* condition, whatever the sheet's row count.
C1_AnyRowCount ==
    \A i \in Sheets : Returned(i) => ~MeetsPivotCondition(workbook[i].df)

\* C1 (amended): find_data_sheet never returns a sheet of at least 3 data rows
\* that meets a pivot condition (more than 70% 'Unnamed:' column names, more
\* than 80% of the first row empty, or a marker phrase in a cell of the first
\* 5x5 cells), whatever its score or its mandatory columns.
C1_PivotWithThreeRowsNeverReturned ==
    \A i \in Sheets :
        Returned(i) /\ NRows(workbook[i].df) >= 3
            => ~MeetsPivotCondition(workbook[i].df)

\* C1 witness: a sheet of 3 rows or more with both mandatory columns and a
\* marker phrase in a cell was passed over and another sheet was returned.
C1_Witness ==
    /\ Found
    /\ \E i \in Sheets :
        /\ HasBothMandatory(workbook[i].df)
        /\ NRows(workbook[i].df) >= 3
        /\ MarkerInSomeCell(workbook[i].df)
        /\ ~Returned(i)

\* C2: a sheet lacking 'ERF Sched Line Status' or 'Entered by' (verbatim) is
\* never returned, whatever its score; if every sheet lacks one of the two the
\* result is NotFound (False, None, None).
C2_MandatoryColumns ==
    ret.op = "find_data_sheet" =>
        /\ \A i \in Sheets : ~HasBothMandatory(workbook[i].df) => ~Returned(i)
        /\ (\A i \in Sheets : ~HasBothMandatory(workbook[i].df)) => NotFound

\* C2 witness: a non-empty sheet without a verbatim 'Entered by' scores higher
\* than the sheet that was returned.
C2_Witness ==
    \E i, j \in Sheets :
        /\ Returned(j)
        /\ ~HasBothMandatory(workbook[i].df)
        /\ ~IsEmpty(workbook[i].df)
        /\ ScoreSheet(workbook[i].df) > ScoreSheet(workbook[j].df)

\* a sheet that passes the empty-sheet, mandatory-column and pivot checks
Eligible(df) == ~IsEmpty(df) /\ HasBothMandatory(df) /\ ~IsRealPivotTable(df)

\* C3: among the sheets that pass the checks the one with the highest score is
\* returned, the first in workbook order among equals; NotFound exactly when
\* no sheet passes.
C3_BestScoreFirstWins ==
    ret.op = "find_data_sheet" =>
        /\ NotFound <=> (\A i \in Sheets : ~Eligible(workbook[i].df))
        /\ Found <=> ~NotFound
        /\ Found =>
            \E i \in Sheets :
                /\ Returned(i)
                /\ Eligible(workbook[i].df)
                /\ \A j \in Sheets :
                     Eligible(workbook[j].df) =>
                        /\ ScoreSheet(workbook[j].df) <= ScoreSheet(workbook[i].df)
                        /\ ScoreSheet(workbook[j].df) = ScoreSheet(workbook[i].df)
                              => i <= j

\* C3 witness: two different eligible sheets tie on the highest score and the
\* earlier one was returned.
C3_Witness ==
    \E i, j \in Sheets :
        /\ i < j
        /\ Returned(i)
        /\ Eligible(workbook[j].df)
        /\ workbook[j].df # workbook[i].df
        /\ ScoreSheet(workbook[j].df) = ScoreSheet(workbook[i].df)

\* C4 as claimed: when exactly one sheet has both mandatory columns and no
\* marker phrase, that sheet is returned.
C4_OneSheetWithoutMarkers ==
    ret.op = "find_data_sheet" =>
        \A i \in Sheets :
            (/\ HasBothMandatory(workbook[i].df) /\ ~MarkerInSomeCell(workbook[i].df)
             /\ \A j \in Sheets \ {i} :
                  ~(HasBothMandatory(workbook[j].df) /\ ~MarkerInSomeCell(workbook[j].df)))
            => Returned(i)

\* the 'Unnamed:' names outnumber the floating-point product of the number
\* of columns and 0.7: more than 70%, or exactly 70% where that product is
\* rounded below its exact value
UnnamedAtThreshold(df) ==
    MoreThanPoint7(Cardinality({j \in 1..NCols(df) : Contains(df.columns[j], UNNAMED)}),
                   NCols(df))

\* the sheet is classified as pivot: 3 rows or more and one of the three
\* conditions, the marker phrases looked for in the joined text of the window
ClassifiedPivot(df) ==
    /\ NRows(df) >= 3
    /\ \/ UnnamedAtThreshold(df)
       \/ FirstRowMostlyEmpty(df)
       \/ \E k \in 1..Len(pivot_indicators) :
             Contains(FirstFewCellsText(df), pivot_indicators[k])

Usable(df) == HasBothMandatory(df) /\ NRows(df) >= 1 /\ ~ClassifiedPivot(df)

\* C4 (amended): when exactly one sheet has both mandatory columns, at least
\* one data row and is not classified as pivot, that sheet is returned.
C4_OneUsableSheetReturned ==
    ret.op = "find_data_sheet" =>
        \A i \in Sheets :
            (Usable(workbook[i].df) /\ \A j \in Sheets \ {i} : ~Usable(workbook[j].df))
            => Returned(i)

\* C4 witness: the only usable sheet, of fewer than 3 rows with an empty first
\* row, was returned although another sheet has both mandatory columns.
C4_Witness ==
    \E i, j \in Sheets :
        /\ i # j
        /\ Returned(i)
        /\ NRows(workbook[i].df) < 3
        /\ FirstRowMostlyEmpty(workbook[i].df)
        /\ HasBothMandatory(workbook[j].df)
        /\ ~Usable(workbook[j].df)

\* C4, the threshold is reached: the only sheet with both mandatory columns
\* has 63 'Unnamed:' names among 90, exactly 70%, is classified as pivot and
\* nothing is returned
C4_SeventyPercentReached ==
    /\ NotFound
    /\ Len(workbook) = 1
    /\ HasBothMandatory(workbook[1].df)
    /\ NRows(workbook[1].df) >= 3
    /\ ~MeetsPivotCondition(workbook[1].df)
    /\ UnnamedAtThreshold(workbook[1].df)

-----------------------------------------------------------------------------
(* Filter and grouper: C5 - C7                                             *)

\* the cell of row i of df under the column called name
CellOf(df, i, name) ==
    df.rows[i][CHOOSE j \in 1..NCols(df) : df.columns[j] = name]

IndexSet(df) == {df.index[k] : k \in 1..NRows(df)}

\* the rows of sub are rows of df, same cells under the same index label, in
\* the order they have in df
IsSubFrame(sub, df) ==
    /\ sub.columns = df.columns
    /\ \A k \in 1..NRows(sub) :
         \E i \in 1..NRows(df) :
            df.index[i] = sub.index[k] /\ df.rows[i] = sub.rows[k]
    /\ \A k, l \in 1..NRows(sub) : k < l => sub.index[k] < sub.index[l]

\* C5: filter_data keeps exactly the rows whose status is 'On order' or
\* 'Received' character for character, in their original order, and raw_data
\* stays the sheet that was loaded.
C5_FilterExactStatuses ==
    filtered_data # None =>
        LET rd == TheVal(raw_data)
            fd == TheVal(filtered_data)
        IN  /\ raw_data # None
            /\ \E i \in Sheets : rd = workbook[i].df
            /\ IsSubFrame(fd, rd)
            /\ \A i \in 1..NRows(rd) :
                 rd.index[i] \in IndexSet(fd)
                    <=> CellOf(rd, i, COL_STATUS) \in {ST_OnOrder, ST_Received}

\* C5 witness: filter_data kept a row and dropped a row whose status differs
\* from a target status only by case or by a trailing blank.
C5_Witness ==
    /\ ret.op = "filter_data"
    /\ filtered_data # None
    /\ NRows(TheVal(filtered_data)) >= 1
    /\ \E i \in 1..NRows(TheVal(raw_data)) :
         /\ CellOf(TheVal(raw_data), i, COL_STATUS) \in {ST_on_order, ST_OnOrder_SP}
         /\ TheVal(raw_data).index[i] \notin IndexSet(TheVal(filtered_data))

GroupsReturned == ret.op = "get_grouped_data" /\ grouped_data # None

\* the position in the filtered rows at which key occurs first
FirstOccurrence(key) ==
    LET fd == TheVal(filtered_data)
    IN  CHOOSE i \in 1..NRows(fd) :
            /\ CellOf(fd, i, COL_ENTERED_BY) = key
            /\ \A h \in 1..(i - 1) : CellOf(fd, h, COL_ENTERED_BY) # key

\* C6 as claimed: the groups come in the order in which their keys first
\* occur in the filtered rows.
C6_FirstOccurrenceOrder ==
    GroupsReturned =>
        \A a, b \in 1..Len(ret.val) :
            a < b => FirstOccurrence(ret.val[a].name) < FirstOccurrence(ret.val[b].name)

\* C6, what group_by_requester does: the groups come in ascending order of
\* their keys (code point order of the 'Entered by' values), as groupby sorts
\* them, whatever the order of first occurrence.
C6_AscendingKeyOrder ==
    GroupsReturned =>
        \A a, b \in 1..Len(ret.val) :
            a < b => StrLess(ret.val[a].name, ret.val[b].name)

\* C6, the failing case is reached: two groups were returned whose keys
\* first occur in the opposite order in the filtered rows.
C6_Witness ==
    /\ GroupsReturned
    /\ \E a, b \in 1..Len(ret.val) :
         a < b /\ FirstOccurrence(ret.val[b].name) < FirstOccurrence(ret.val[a].name)

\* a key that is absent, empty or whitespace-only
BlankKey(c) == IsNa(c) \/ \A k \in 1..Len(c) : IsSpace(c[k])

\* the trimmed form of a key: without its leading and trailing blanks
Trimmed(c) ==
    IF BlankKey(c) THEN <<>>
    ELSE LET lo == CHOOSE k \in 1..Len(c) :
                       ~IsSpace(c[k]) /\ \A h \in 1..(k - 1) : IsSpace(c[h])
             hi == CHOOSE k \in 1..Len(c) :
                       ~IsSpace(c[k]) /\ \A h \in (k + 1)..Len(c) : IsSpace(c[h])
         IN  SubSeq(c, lo, hi)

\* the group, if any, that holds the filtered row with index label x
GroupsOf(x) == {a \in 1..Len(ret.val) : x \in IndexSet(ret.val[a].group)}

\* rows with blank keys are dropped and every other filtered row is in one group
DropsBlankKeys ==
    LET fd == TheVal(filtered_data) IN
    \A i \in 1..NRows(fd) :
        Cardinality(GroupsOf(fd.index[i]))
            = IF BlankKey(CellOf(fd, i, COL_ENTERED_BY)) THEN 0 ELSE 1

\* C7 as claimed: blank keys are dropped, rows whose keys differ only in
\* leading or trailing whitespace share a group, and every group key equals
\* its own trimmed form.
C7_GroupsByTrimmedKey ==
    GroupsReturned =>
        LET fd == TheVal(filtered_data) IN
        /\ DropsBlankKeys
        /\ \A a \in 1..Len(ret.val) : ret.val[a].name = Trimmed(ret.val[a].name)
        /\ \A i, j \in 1..NRows(fd) :
             (/\ ~BlankKey(CellOf(fd, i, COL_ENTERED_BY))
              /\ ~BlankKey(CellOf(fd, j, COL_ENTERED_BY))
              /\ Trimmed(CellOf(fd, i, COL_ENTERED_BY)) = Trimmed(CellOf(fd, j, COL_ENTERED_BY)))
             => GroupsOf(fd.index[i]) = GroupsOf(fd.index[j])

\* C7, what group_by_requester does: blank keys are dropped and the
\* remaining rows are grouped by the value as it stands, untrimmed: two rows
\* share a group exactly when their values are identical, every row's value
\* is its group's key, and every group key is non-blank.
C7_GroupsByExactKey ==
    GroupsReturned =>
        LET fd == TheVal(filtered_data) IN
        /\ DropsBlankKeys
        /\ \A a \in 1..Len(ret.val) :
             /\ ~BlankKey(ret.val[a].name)
             /\ NRows(ret.val[a].group) >= 1
             /\ IsSubFrame(ret.val[a].group, fd)
             /\ \A k \in 1..NRows(ret.val[a].group) :
                  CellOf(ret.val[a].group, k, COL_ENTERED_BY) = ret.val[a].name
        /\ \A i, j \in 1..NRows(fd) :
             (/\ ~BlankKey(CellOf(fd, i, COL_ENTERED_BY))
              /\ ~BlankKey(CellOf(fd, j, COL_ENTERED_BY)))
             => (GroupsOf(fd.index[i]) = GroupsOf(fd.index[j])
                   <=> CellOf(fd, i, COL_ENTERED_BY) = CellOf(fd, j, COL_ENTERED_BY))

\* C7, the failing case is reached: a row with a blank key was dropped and
\* two groups were returned whose keys differ only in trailing whitespace.
C7_Witness ==
    /\ GroupsReturned
    /\ \E i \in 1..NRows(TheVal(filtered_data)) :
         BlankKey(CellOf(TheVal(filtered_data), i, COL_ENTERED_BY))
    /\ \E a, b \in 1..Len(ret.val) :
         /\ a # b
         /\ Trimmed(ret.val[a].name) = Trimmed(ret.val[b].name)


-----------------------------------------------------------------------------
(* Claims C8 - C10: the unmapped set and the dispatch modes               *)

\* C8 (as stated): a search_contact_email call that returns an address, from
\* the mapping or from the directory lookup, adds nothing to unmapped_users:
\* an identifier some tier resolved is never put into the set.
C8_ResolvedNeverUnmapped ==
    [][ (ret'.op = "search_contact_email" /\ ret'.val # None)
            => unmapped_users' = unmapped_users ]_vars

LiveRun ==
    /\ ret.op = "send_emails"
    /\ ret.val.mode = "live"
    /\ ~ret.val.cancelled

\* the identifiers of the groups whose resolution returned an address
ResolvedGroups == {email_data[i].to : i \in {j \in 1..Len(email_data) : email_data[j].email_found}}

\* C9: after a confirmed live run, successful + failed is the number of groups
\* with a resolved address, and every mail item handed to Outlook belongs to
\* such a group.
C9_LiveOnlyResolvedGroups ==
    LiveRun =>
        /\ ret.val.successful + ret.val.failed
               = Cardinality({i \in 1..Len(email_data) : email_data[i].email_found})
        /\ \A k \in 1..Len(transport_log) : transport_log[k].to_address \in ResolvedGroups

\* C9 witness: a confirmed live run with a resolved and an unresolved group,
\* in which Outlook was handed at least one item
C9_Witness ==
    /\ LiveRun
    /\ \E i \in 1..Len(email_data) : ~email_data[i].email_found
    /\ \E i \in 1..Len(email_data) : email_data[i].email_found
    /\ transport_log # <<>>
    /\ ret.val.failed > 0

DemoRun ==
    /\ ret.op = "manager_demo_mode"
    /\ ~ret.val.error
    /\ ~ret.val.cancelled

\* C10 (as stated): after a demo run every mail item handed to Outlook is
\* addressed to one of the test addresses the operator entered.
C10_DemoOnlyTestAddresses ==
    DemoRun => \A k \in 1..Len(transport_log) :
                   InSeq(transport_log[k].To, ret.val.test_addresses)


-----------------------------------------------------------------------------
(* Claims C11 - C13: preview, batch failures, early abort                 *)

PreviewRun ==
    \/ ret.op = "preview_emails"
    \/ ret.op = "send_emails" /\ ret.val.mode = "preview"

\* C11: after preview_emails or send_emails in preview mode every group has
\* been resolved (one e-mail entry per group, its resolution recorded) and no
\* mail item has been handed to Outlook.
C11_PreviewNeverSends ==
    PreviewRun =>
        /\ transport_log = <<>>
        /\ Len(email_data) = Len(GroupedData)
        /\ \A i \in 1..Len(email_data) :
              /\ email_data[i].to = GroupedData[i].name
              /\ [id |-> email_data[i].to, email |-> email_data[i].resolved_email]
                     \in resolutions

\* C11 witness: send_emails ran in preview mode over groups of which one has
\* a resolved address
C11_Witness ==
    /\ ret.op = "send_emails"
    /\ ret.val.mode = "preview"
    /\ \E i \in 1..Len(email_data) : email_data[i].email_found
    /\ \E i \in 1..Len(email_data) : ~email_data[i].email_found

BulkRun == LiveRun \/ DemoRun

\* the list send_bulk_emails was given in the last run
BulkInput ==
    IF LiveRun THEN SendableEmails(email_data)
    ELSE DemoEmailList(DemoData(email_data), ret.val.test_addresses)

\* the messages whose recipient resolved to an address, in order
Deliverable(msgs) ==
    LET Resolves(m) == \E r \in resolutions : r.id = m.to /\ r.email # None
    IN  SelectSeq(msgs, Resolves)

\* C12: after a live or demo batch, successful + failed is the number of
\* messages given to send_bulk_emails, and the mail items handed to Outlook
\* are those of every message with a resolved recipient, in input order,
\* whatever Outlook answered to the earlier ones.
C12_BatchSurvivesFailures ==
    BulkRun =>
        /\ ret.val.successful + ret.val.failed = Len(BulkInput)
        /\ Len(transport_log) = Len(Deliverable(BulkInput))
        /\ \A k \in 1..Len(transport_log) :
              transport_log[k].to_address = Deliverable(BulkInput)[k].to
        /\ ret.val.successful
               = Cardinality({k \in 1..Len(transport_log) : transport_log[k].ok})

\* C12 witness: a batch in which Outlook refused the first item and accepted
\* the second
C12_Witness ==
    /\ BulkRun
    /\ Len(transport_log) >= 2
    /\ ~transport_log[1].ok
    /\ transport_log[2].ok
    /\ ret.val.successful >= 1
    /\ ret.val.failed >= 1

ProcessFailed == ret.op = "process_excel_file" /\ ~ret.val

\* C13: when process_excel_file fails (no sheet selected, no row left by the
\* filter, or no valid requester), main returns at once: the stages after the
\* failed one have not run, no recipient was resolved and nothing was handed
\* to Outlook.
C13_FailedStageStopsRun ==
    ProcessFailed =>
        /\ pc = "exit"
        /\ grouped_data = None
        /\ (raw_data = None => filtered_data = None)
        /\ email_data = <<>>
        /\ resolutions = {}
        /\ resolution_stats = ZeroStats
        /\ unmapped_users = {}
        /\ transport_log = <<>>

\* C13 witness: the run ended after grouping found no valid requester among
\* the filtered rows
C13_Witness ==
    /\ ProcessFailed
    /\ pc = "exit"
    /\ filtered_data # None
    /\ NRows(TheVal(filtered_data)) > 0
    /\ grouped_data = None

\* ---------------------------------------------------------------------------
\* C14: add_manual_mapping followed by resolve_email

\* the step is a resolve_email that follows an add_manual_mapping of the same
\* identifier
ResolveAfterAdd ==
    /\ ret.op = "add_manual_mapping"
    /\ ret'.op = "resolve_email"
    /\ ret'.arg = ret.arg.username

\* add_manual_mapping accepts a non-empty identifier with an address that
\* holds an "@"
Accepted(arg) == arg.username # <<>> /\ HasChar(arg.email, AT)

\* C14 as stated: for every identifier and address, resolve_email right after
\* add_manual_mapping returns the address that was given, and the identifier
\* is not in unmapped_users.
C14_Original ==
    [][ResolveAfterAdd =>
          /\ ret'.val = Some(ret.arg.email)
          /\ ret.arg.username \notin unmapped_users']_vars

\* C14 amended: for a non-empty identifier and an address holding an "@",
\* resolve_email right after add_manual_mapping returns the trimmed address
\* and the identifier is not in unmapped_users; add_manual_mapping with an
\* empty identifier or an address without "@" changes neither the mapping nor
\* unmapped_users.
C14_AddThenResolve ==
    [][/\ (ResolveAfterAdd /\ Accepted(ret.arg)) =>
             /\ ret'.val = Some(Strip(ret.arg.email))
             /\ ret.arg.username \notin unmapped_users'
       /\ (ret'.op = "add_manual_mapping" /\ ~Accepted(ret'.arg)) =>
             UNCHANGED <<email_mapping, unmapped_users>>]_vars

\* C14 witness: the first call added "Q" with an address, the second call
\* resolved "Q" to that address
C14_Witness ==
    /\ calls = 2
    /\ ret.op = "resolve_email"
    /\ ret.arg = ID_Q
    /\ ret.val = Some(A_q)
    /\ ID_Q \notin unmapped_users

\* ---------------------------------------------------------------------------
\* C15: an identifier that is already an address

AddressShaped(name) == HasChar(name, AT) /\ HasChar(name, DOT)

\* C15: search_contact_email on an identifier holding "@" and "." returns the
\* identifier itself and leaves the counters, the mapping and unmapped_users
\* as they were.
C15_AddressPassesThrough ==
    [][(ret'.op = "search_contact_email" /\ AddressShaped(ret'.arg)) =>
          /\ ret'.val = Some(ret'.arg)
          /\ UNCHANGED <<resolution_stats, email_mapping, unmapped_users>>]_vars

\* C15 witness: "x@y.z" was passed through after an earlier resolution had
\* already counted
C15_Witness ==
    /\ ret.op = "search_contact_email"
    /\ ret.arg = ID_addr
    /\ ret.val = Some(ID_addr)
    /\ StatsTotal > 0
    /\ ID_addr \notin unmapped_users

\* ---------------------------------------------------------------------------
\* C16: the exact key wins over the substring scan

\* the last call was resolve_email and the normalized identifier is the key
\* of item i of the mapping
ResolvedKey(i) ==
    /\ ret.op = "resolve_email"
    /\ i \in 1..Len(email_mapping)
    /\ email_mapping[i].key = Upper(Strip(ret.arg))

\* C16 as stated: whenever the normalized identifier is a key of the mapping,
\* resolve_email returns that key's address.
C16_Original ==
    \A i \in 1..Len(email_mapping) :
        ResolvedKey(i) => ret.val = Some(email_mapping[i].email)

\* C16 amended: whenever a non-empty identifier, normalized, is a key of the
\* mapping, resolve_email returns that key's address, also when an earlier
\* key matches it as a substring; the empty identifier resolves to nothing.
C16_ExactKeyWins ==
    /\ \A i \in 1..Len(email_mapping) :
          (ResolvedKey(i) /\ ret.arg # <<>>) => ret.val = Some(email_mapping[i].email)
    /\ (ret.op = "resolve_email" /\ ret.arg = <<>>) => ret.val = None

\* C16 witness: "B" was resolved to the address of key B although the earlier
\* key AB contains it
C16_Witness ==
    /\ ResolvedKey(2)
    /\ ret.arg = ID_B
    /\ email_mapping[1].key = ID_AB
    /\ Contains(email_mapping[1].key, ID_B)
    /\ ret.val = Some(A_b)
    /\ ret.val # Some(email_mapping[1].email)

\* ---------------------------------------------------------------------------
\* C17: the substring scan

\* the last call was resolve_email and the normalized identifier is no key
ResolvedNoKey ==
    /\ ret.op = "resolve_email"
    /\ \A i \in 1..Len(email_mapping) : email_mapping[i].key # Upper(Strip(ret.arg))

\* the items of the mapping whose key holds the normalized identifier or is
\* held by it
SubstringHits ==
    {i \in 1..Len(email_mapping) :
        \/ Contains(email_mapping[i].key, Upper(Strip(ret.arg)))
        \/ Contains(Upper(Strip(ret.arg)), email_mapping[i].key)}

\* the answer the substring rule gives: the address of the first hit, if any
SubstringAnswer ==
    IF SubstringHits = {} THEN None
    ELSE Some(email_mapping[CHOOSE i \in SubstringHits :
                               \A h \in SubstringHits : i <= h].email)

\* C17 as stated: when the normalized identifier is no key, resolve_email
\* returns the address of the first key that holds it or is held by it, and
\* no address when there is none.
C17_Original == ResolvedNoKey => ret.val = SubstringAnswer

\* C17 amended: the same for a non-empty identifier, which is also put in
\* unmapped_users when no key matches; the empty identifier resolves to no
\* address although it is a substring of every key.
C17_FirstSubstringMatch ==
    /\ (ResolvedNoKey /\ ret.arg # <<>>) =>
          /\ ret.val = SubstringAnswer
          /\ SubstringHits = {} => ret.arg \in unmapped_users
    /\ (ResolvedNoKey /\ ret.arg = <<>>) =>
          /\ ret.val = None
          /\ <<>> \notin unmapped_users

\* C17 witness: "ab@l" is no key, the keys AB and B are both held by it, and
\* the address of AB, the first of them, was returned
C17_Witness ==
    /\ ResolvedNoKey
    /\ ret.arg = T_nodot
    /\ {1, 2} \subseteq SubstringHits
    /\ ret.val = Some(email_mapping[1].email)
    /\ email_mapping[1].email # email_mapping[2].email

\* C17 witness of the other case: no key matches "Q", nothing was returned
\* and "Q" joined unmapped_users
C17_NoMatchReached ==
    /\ ResolvedNoKey
    /\ ret.arg = ID_Q
    /\ Len(email_mapping) > 0
    /\ SubstringHits = {}
    /\ ret.val = None
    /\ ID_Q \in unmapped_users

\* ---------------------------------------------------------------------------
\* C18: the resolution counters

\* an identifier whose resolution is counted: not empty, not already an address
Counted(name) == name # <<>> /\ ~AddressShaped(name)

\* exactly one of mapped, outlook_resolved and failed went up by one and
\* nothing else in the counters changed
OneCounterUp ==
    \E f \in {"mapped", "outlook_resolved", "failed"} :
        resolution_stats' = [resolution_stats EXCEPT ![f] = @ + 1]

\* the counted identifiers of a list
CountedIn(names) == Cardinality({i \in 1..Len(names) : Counted(names[i])})

\* the resolution attempts of one send_email: the recipient, and the cc names
\* once the recipient has an address (item is whether a mail item was made)
SendAttempts(to_address, cc_addresses, item) ==
    (IF Counted(to_address) THEN 1 ELSE 0) + (IF item THEN CountedIn(cc_addresses) ELSE 0)

\* the resolution attempts of a batch from message i on: send_email is
\* called for every message; log holds the mail items of the batch
RECURSIVE BatchAttempts(_, _, _, _)
BatchAttempts(names, ccs, log, i) ==
    IF i > Len(names) THEN 0
    ELSE SendAttempts(names[i], ccs[i],
                      \E k \in 1..Len(log) : log[k].to_address = names[i])
            + BatchAttempts(names, ccs, log, i + 1)

\* from the counters base on, n attempts each raised one of mapped,
\* outlook_resolved and failed by one, and fallback_used was left alone
CountersUp(base, n) ==
    /\ \A f \in {"mapped", "outlook_resolved", "failed"} : resolution_stats'[f] >= base[f]
    /\ resolution_stats'.mapped + resolution_stats'.outlook_resolved
          + resolution_stats'.failed
          = base.mapped + base.outlook_resolved + base.failed + n
    /\ resolution_stats'.fallback_used = base.fallback_used

\* C18: send_bulk_emails starts from counters at zero, every
\* search_contact_email of a non-empty identifier that is no address, called
\* directly or by send_email for a recipient or a cc name, raises exactly one
\* of mapped, outlook_resolved and failed by one, so after a batch their sum
\* is the number of such attempts of the batch; no other call touches the
\* counters.
C18_StatsCountAttempts ==
    [][/\ ret'.op = "search_contact_email" =>
             IF Counted(ret'.arg) THEN OneCounterUp ELSE UNCHANGED resolution_stats
       /\ ret'.op = "send_email" =>
             CountersUp(resolution_stats,
                        IF is_connected
                        THEN SendAttempts(ret'.arg, ret'.cc, transport_log' # transport_log)
                        ELSE 0)
       /\ ret'.op = "send_bulk_emails" =>
             CountersUp(ZeroStats,
                        IF is_connected
                        THEN BatchAttempts(ret'.arg, ret'.cc, transport_log', 1)
                        ELSE 0)
       /\ ret'.op \notin {"search_contact_email", "send_email", "send_bulk_emails"} =>
             UNCHANGED resolution_stats]_vars

\* C18 witness: after an earlier resolution of another identifier, a batch of
\* "B", "ZZ" and "x@y.z" without cc names left a sum of two, one of them
\* mapped
C18_Witness ==
    /\ ret.op = "send_bulk_emails"
    /\ ret.arg = <<ID_B, ID_ZZ, ID_addr>>
    /\ \A i \in 1..Len(ret.cc) : ret.cc[i] = <<>>
    /\ is_connected
    /\ \E e \in resolutions : e.id \notin {ID_B, ID_ZZ, ID_addr} /\ Counted(e.id)
    /\ StatsTotal = 2
    /\ resolution_stats.mapped = 1

\* C18 witness of the cc names: a batch whose messages carry cc names
\* counted more attempts than it has messages
C18_CcCountedReached ==
    /\ ret.op = "send_bulk_emails"
    /\ is_connected
    /\ \E i \in 1..Len(ret.cc) : ret.cc[i] # <<>>
    /\ StatsTotal > Len(ret.arg)

\* ---------------------------------------------------------------------------
\* C19: the shape of the mapping

\* C19: from construction on and after any calls of add_manual_mapping,
\* load_manual_mappings and the resolving methods, every address of the
\* mapping holds an "@" and every key is its own trimmed, upper-cased form.
C19_MappingWellFormed ==
    \A i \in 1..Len(email_mapping) :
        /\ HasChar(email_mapping[i].email, AT)
        /\ email_mapping[i].key = Upper(Strip(email_mapping[i].key))

\* C19 witness: a mapping loaded from a file with padded cells, then changed
\* by add_manual_mapping ("Q") and by load_manual_mappings ("ab " with a
\* padded address), then used by resolve_email
C19_Witness ==
    /\ ret.op = "resolve_email"
    /\ \E i \in 1..Len(email_mapping) :
          email_mapping[i].key = ID_B /\ email_mapping[i].email = A_b
    /\ \E i \in 1..Len(email_mapping) :
          email_mapping[i].key = ID_AB /\ email_mapping[i].email = A_q
    /\ \E i \in 1..Len(email_mapping) : email_mapping[i].key = ID_Q

\* ---------------------------------------------------------------------------
\* C20: unmapped_users only grows

\* the calls that add a manual mapping
ManualOps == {"add_manual_mapping", "load_manual_mappings"}

\* C20: a call other than add_manual_mapping and load_manual_mappings
\* (connect, search_contact_email, resolve_email, bulk_resolve_emails,
\* export_unmapped_users, send_bulk_emails) removes nothing from
\* unmapped_users.
C20_UnmappedOnlyGrows ==
    [][ret'.op \notin ManualOps => unmapped_users \subseteq unmapped_users']_vars

\* C20 witness: bulk_resolve_emails added "ZZ" and kept " ", which an
\* earlier resolve_email had put in unmapped_users and which is not in its list
C20_Witness ==
    /\ ret.op = "bulk_resolve_emails"
    /\ ~InSeq(SPACE, ret.arg)
    /\ SPACE \in unmapped_users
    /\ InSeq(ID_ZZ, ret.arg)
    /\ ID_ZZ \in unmapped_users

\* C20, the removing side: add_manual_mapping took "Q" out of unmapped_users
C20_RemovalReached ==
    /\ ret.op = "add_manual_mapping"
    /\ ret.arg.username = ID_Q
    /\ ID_Q \notin unmapped_users
    /\ calls = 2
    /\ Len(email_mapping) = 1

\* ---------------------------------------------------------------------------
\* C21: the export of unmapped_users

\* send_emails or manager_demo_mode has returned
DispatchEnded == ret.op \in {"send_emails", "manager_demo_mode"}

\* the rows hold every identifier of unmapped_users once, and nothing else
OneRowPerIdentifier(rows) ==
    /\ Len(rows) = Cardinality(unmapped_users)
    /\ {rows[i].Username : i \in 1..Len(rows)} = unmapped_users

\* C21 as stated: whenever unmapped_users is not empty when a dispatch
\* (preview, demo or live) ends, it was exported with one row per identifier.
C21_Original ==
    (DispatchEnded /\ unmapped_users # {}) =>
        /\ ret.val.unmapped_users_file # None
        /\ OneRowPerIdentifier(TheVal(ret.val.unmapped_users_file))

\* C21 amended: after a live run that was confirmed or a demo run that was
\* confirmed, a non-empty unmapped_users is exported with exactly one row per
\* identifier unless writing the file fails, which is logged; a preview run
\* and a cancelled run export nothing, and an empty set is not exported.
C21_ExportAfterBatch ==
    /\ ((LiveRun \/ DemoRun) /\ unmapped_users # {} /\ ~ret.val.export_error) =>
          /\ ret.val.unmapped_users_file # None
          /\ OneRowPerIdentifier(TheVal(ret.val.unmapped_users_file))
    /\ ((LiveRun \/ DemoRun) /\ (unmapped_users = {} \/ ret.val.export_error)) =>
          ret.val.unmapped_users_file = None
    /\ (DispatchEnded /\ ~(LiveRun \/ DemoRun)) =>
          /\ ret.val.unmapped_users_file = None
          /\ ~ret.val.export_error

\* C21 witness: a live run ended with two unresolved identifiers and a file
\* of two rows
C21_Witness ==
    /\ LiveRun
    /\ Cardinality(unmapped_users) = 2
    /\ ret.val.unmapped_users_file # None
    /\ Len(TheVal(ret.val.unmapped_users_file)) = 2
    /\ transport_log # <<>>

\* ---------------------------------------------------------------------------
\* C22: the exit status of the command

\* main returned because the input file does not exist
MissingFile == pc = "exit" /\ ret = Ret("main", FALSE) /\ ~is_connected

\* a mode was run and no group's recipient was resolved
TotalResolutionFailure ==
    /\ DispatchEnded
    /\ email_data # <<>>
    /\ \A i \in 1..Len(email_data) : ~email_data[i].email_found

\* C22 (as stated): the command, when main comes to its end, ends with a
\* non-zero status when the input file does not exist or when resolution
\* fails for every group, and with status zero in every other case.
C22_ExitStatus ==
    pc = "exit" /\ ret.op \notin {"main_raised", "main_interrupted"} =>
        (exit_status # Some(0) <=> (MissingFile \/ TotalResolutionFailure))

\* C22, what the command does: it ends with status 1 when an exception
\* leaves main before the try block, it is ended by SIGINT when that
\* exception is a KeyboardInterrupt, and it ends with status zero in every
\* other case, a missing file and a run without any resolved group included
C22_ZeroUnlessRaised ==
    pc = "exit" =>
        exit_status = Some(IF ret.op = "main_raised" THEN 1
                           ELSE IF ret.op = "main_interrupted" THEN -2
                           ELSE 0)

\* C22, the abnormal ends are reached: the end of the input at the prompt or
\* the constructor raised, and the run was interrupted before the try block
C22_RaisedReached == pc = "exit" /\ ret.op = "main_raised" /\ exit_status = Some(1)
C22_InterruptedReached ==
    pc = "exit" /\ ret.op = "main_interrupted" /\ exit_status = Some(-2)

\* C22, both failing cases are reached
C22_MissingFileReached == MissingFile /\ exit_status = Some(0)
C22_TotalFailureReached ==
    TotalResolutionFailure /\ LiveRun /\ exit_status = Some(0)

\* ---------------------------------------------------------------------------
\* C23: the resolver without mapping source

\* the step resolves an identifier that is no address while the mapping is
\* empty
DegradedResolution ==
    /\ email_mapping = <<>>
    /\ ret'.op \in {"search_contact_email", "resolve_email"}
    /\ ~AddressShaped(ret'.arg)

\* C23 as stated: a missing, unreadable or address-less mapping source gives
\* an empty mapping, and every resolution of an identifier that is no address
\* is then answered by the Outlook address list or ends without address and
\* with the identifier in unmapped_users.
C23_Original ==
    [][/\ \A f \in DegradedFiles : LoadMappingFast(f) = <<>>
       /\ DegradedResolution =>
             \/ ret'.op = "search_contact_email" /\ ret'.val # None
             \/ ret'.val = None /\ ret'.arg \in unmapped_users']_vars

\* C23 amended: such a source gives an empty mapping; while the mapping is
\* empty, every resolution of a non-empty identifier that is no address is
\* answered by the Outlook address list or ends without address and with the
\* identifier in unmapped_users; the empty identifier gets no address and is
\* not put in unmapped_users.
C23_DegradedMode ==
    [][/\ \A f \in DegradedFiles : LoadMappingFast(f) = <<>>
       /\ (DegradedResolution /\ ret'.arg # <<>>) =>
             \/ ret'.op = "search_contact_email" /\ ret'.val # None
             \/ ret'.val = None /\ ret'.arg \in unmapped_users'
       /\ (DegradedResolution /\ ret'.arg = <<>>) =>
             /\ ret'.val = None
             /\ UNCHANGED unmapped_users]_vars

\* C23 witness: with an empty mapping "Q" got no address from the Outlook
\* address list and was put in unmapped_users
C23_Witness ==
    /\ email_mapping = <<>>
    /\ ret.op = "search_contact_email"
    /\ ret.arg = ID_Q
    /\ ret.val = None
    /\ ID_Q \in unmapped_users
    /\ resolution_stats.failed = 1

\* C23 witness of the other outcome: with an empty mapping "ZZ" was answered
\* by the Outlook address list
C23_DirectoryAnsweredReached ==
    /\ email_mapping = <<>>
    /\ ret.op = "search_contact_email"
    /\ ret.arg = ID_ZZ
    /\ ret.val # None

\* C23 witness of the empty identifier: with an empty mapping it got no
\* address and was not put in unmapped_users
C23_EmptyIdentifierReached ==
    /\ email_mapping = <<>>
    /\ ret.op \in {"search_contact_email", "resolve_email"}
    /\ ret.arg = <<>>
    /\ ret.val = None
    /\ <<>> \notin unmapped_users

\* ---------------------------------------------------------------------------
\* C24: the score of a sheet

\* the sheet _score_sheet was called on
Scored == workbook[ret.val.sheet].df

\* the required names found among the column names as they are written
VerbatimMatches(df) ==
    {k \in 1..Len(REQUIRED_COLUMNS) :
        \E j \in 1..NCols(df) : df.columns[j] = REQUIRED_COLUMNS[k]}

\* the required names found among the column names once trimmed
TrimmedMatches(df) ==
    {k \in 1..Len(REQUIRED_COLUMNS) :
        \E j \in 1..NCols(df) : Strip(df.columns[j]) = REQUIRED_COLUMNS[k]}

\* C24 as stated: the score is the number of required names that occur
\* verbatim, without trimming, among the column names of the sheet, and lies
\* between 0 and 16.
C24_Original ==
    ret.op = "score_sheet" =>
        /\ ret.val.score = Cardinality(VerbatimMatches(Scored))
        /\ ret.val.score \in 0..16

\* C24 amended: the score is the number of names of the required-column list,
\* which has 15 names, that equal a column name of the sheet after the column
\* name is trimmed; it lies between 0 and 15.
C24_ScoreCountsTrimmedNames ==
    ret.op = "score_sheet" =>
        /\ ret.val.score = Cardinality(TrimmedMatches(Scored))
        /\ ret.val.score \in 0..Len(REQUIRED_COLUMNS)
        /\ Len(REQUIRED_COLUMNS) = 15

\* C24 witness: a sheet with the column "Entered by " scored 4, one more than
\* the required names written exactly among its columns
C24_Witness ==
    /\ ret.op = "score_sheet"
    /\ ret.val.score = 4
    /\ Cardinality(VerbatimMatches(Scored)) = 3
    /\ InSeq(COL_ENTERED_BY_SP, Scored.columns)

\* ---------------------------------------------------------------------------
\* C25: marker phrases and cell boundaries

\* the sheet _is_real_pivot_table was called on
Classified == workbook[ret.val.sheet].df

\* C25 (as stated): a sheet in which no single cell of the first 5 x 5 cells
\* holds a marker phrase, and which meets neither percentage condition, is not
\* classified as pivot, even when adjacent cells read together form a phrase.
C25_MarkerWithinOneCell ==
    (/\ ret.op = "is_real_pivot_table"
     /\ ~MarkerInSomeCell(Classified)
     /\ ~ManyUnnamed(Classified)
     /\ ~FirstRowMostlyEmpty(Classified))
    => ~ret.val.pivot

\* C25, what the code does: from 3 rows on a sheet is classified as pivot
\* exactly when a percentage condition holds or a marker phrase occurs in the
\* text of the window joined by single spaces
C25_MarkerInJoinedText ==
    ret.op = "is_real_pivot_table" => (ret.val.pivot <=> ClassifiedPivot(Classified))

\* C25, the failing case is reached: the cells "count" and "of" side by side
\* make a sheet a pivot table
C25_SplitPhraseReached ==
    /\ ret.op = "is_real_pivot_table"
    /\ ret.val.pivot
    /\ ~MarkerInSomeCell(Classified)
    /\ ~UnnamedAtThreshold(Classified)
    /\ ~FirstRowMostlyEmpty(Classified)

\* ---------------------------------------------------------------------------
\* C26: the final confirmation of live mode

\* send_emails was called in live mode
LiveCall == ret.op = "send_emails" /\ ret.val.mode = "live"

\* C26: in live mode Outlook is handed messages only when the operator typed
\* exactly "SEND LIVE"; after any other text send_emails returns 0 and 0 with
\* a cancelled result, nothing was handed to Outlook and unmapped_users was
\* not exported.
C26_LiveNeedsConfirmation ==
    LiveCall =>
        IF ret.val.final_confirm = Some("SEND LIVE")
        THEN ~ret.val.cancelled
        ELSE /\ ret.val.cancelled
             /\ ret.val.successful = 0
             /\ ret.val.failed = 0
             /\ transport_log = <<>>
             /\ ret.val.unmapped_users_file = None
             /\ ~ret.val.export_error

\* C26 witness: "SEND LIVE " with a trailing blank cancelled a live run that
\* had a resolved group to send and an unresolved identifier to export
C26_Witness ==
    /\ LiveCall
    /\ ret.val.final_confirm = Some("SEND LIVE ")
    /\ ret.val.cancelled
    /\ ret.val.mapped_count > 0
    /\ unmapped_users # {}
    /\ is_connected
    /\ transport_log = <<>>

\* C26 witness of the confirmed side: after "SEND LIVE" messages were handed
\* to Outlook
C26_ConfirmedReached ==
    /\ LiveCall
    /\ ret.val.final_confirm = Some("SEND LIVE")
    /\ transport_log # <<>>

\* ---------------------------------------------------------------------------
\* C27: the statistics reported after a live dispatch

\* the groups of the last run that send_bulk_emails was given and whose key
\* goes through the mapping and directory tiers
CountedSendable ==
    {i \in 1..Len(email_data) : email_data[i].email_found /\ Counted(email_data[i].to)}

\* the groups left out of the batch because their resolution returned nothing
ExcludedGroups == {i \in 1..Len(email_data) : ~email_data[i].email_found}

\* C27: after a confirmed live run the resolution statistics cover only the
\* second resolution, the one send_email makes: mapped + outlook_resolved +
\* failed is the number of sendable groups whose key is not address-shaped,
\* and a group left out as unresolved adds nothing to failed, which stays 0
\* although unmapped_users names the group.
C27_StatsCoverSecondResolution ==
    LiveRun =>
        /\ StatsTotal = Cardinality(CountedSendable)
        /\ resolution_stats.failed = 0
        /\ \A i \in ExcludedGroups :
              Counted(email_data[i].to) => email_data[i].to \in unmapped_users

\* C27 witness: a confirmed live run with a sendable group that is counted,
\* a sendable group whose key is an address, and an unresolved group
C27_Witness ==
    /\ LiveRun
    /\ CountedSendable # {}
    /\ ExcludedGroups # {}
    /\ \E i \in 1..Len(email_data) :
          email_data[i].email_found /\ AddressShaped(email_data[i].to)
    /\ resolution_stats.failed = 0

\* ---------------------------------------------------------------------------
\* C28: identifiers made of whitespace only

\* username.strip() is empty although username is not
WhitespaceOnly(username) == username # <<>> /\ Strip(username) = <<>>

\* resolve_email was called with a whitespace-only identifier on a mapping
\* that has entries
BlankResolved ==
    /\ ret.op = "resolve_email"
    /\ WhitespaceOnly(ret.arg)
    /\ email_mapping # <<>>

\* C28 (as stated): with a non-empty mapping, resolve_email on a
\* whitespace-only identifier returns the address of the first entry of the
\* mapping, and the identifier is not added to unmapped_users.
C28_Original ==
    [][ (BlankResolved' /\ email_mapping' = email_mapping)
            => /\ ret'.val = Some(email_mapping[1].email)
               /\ unmapped_users' = unmapped_users ]_vars

\* C28 (amended): with a non-empty mapping, resolve_email on a
\* whitespace-only identifier returns the address stored under the empty key
\* when the mapping has one (the exact tier), else the address of the first
\* entry of the mapping (the substring tier); in both cases the identifier is
\* not added to unmapped_users.
C28_BlankIdentifier ==
    [][ (BlankResolved' /\ email_mapping' = email_mapping)
            => /\ ret'.val = IF FirstExact(email_mapping, <<>>) # 0
                             THEN Some(email_mapping[FirstExact(email_mapping, <<>>)].email)
                             ELSE Some(email_mapping[1].email)
               /\ unmapped_users' = unmapped_users ]_vars

\* C28 witness: a whitespace-only identifier answered by the substring tier
\* with the first of several entries
C28_Witness ==
    /\ BlankResolved
    /\ FirstExact(email_mapping, <<>>) = 0
    /\ Len(email_mapping) > 1
    /\ ret.val = Some(email_mapping[1].email)
    /\ ret.arg \notin unmapped_users

\* C28 witness of the exact tier: the mapping holds the empty key, not as its
\* first entry, and its address was returned
C28_EmptyKeyReached ==
    /\ BlankResolved
    /\ FirstExact(email_mapping, <<>>) > 1
    /\ ret.val # Some(email_mapping[1].email)

\* ---------------------------------------------------------------------------
\* C29: the size of a demo dispatch

\* the messages send_bulk_emails went through in the last run: each one is
\* counted as successful or as failed
Attempted == ret.val.successful + ret.val.failed

\* C29: after a confirmed demo run every group has been resolved, between 1
\* and 3 test addresses were accepted, and the number of messages given to
\* send_bulk_emails is min(5, number of groups) times the number of test
\* addresses; Outlook is handed at most that many mail items, and exactly
\* that many when every test address has both "@" and ".".
C29_DemoFirstFiveGroups ==
    DemoRun =>
        /\ Len(email_data) = Len(GroupedData)
        /\ \A i \in 1..Len(email_data) :
              [id |-> GroupedData[i].name, email |-> email_data[i].resolved_email]
                  \in resolutions
        /\ Len(ret.val.test_addresses) \in 1..3
        /\ Attempted = Min(5, Len(GroupedData)) * Len(ret.val.test_addresses)
        /\ Len(transport_log) <= Attempted
        /\ (\A k \in 1..Len(ret.val.test_addresses) :
                AddressShaped(ret.val.test_addresses[k]))
              => Len(transport_log) = Attempted

\* C29 witness: a confirmed demo run over six groups with three test
\* addresses: fifteen messages, not eighteen
C29_Witness ==
    /\ DemoRun
    /\ Len(GroupedData) = 6
    /\ Len(ret.val.test_addresses) = 3
    /\ Attempted = 15

\* C29 witness of the small case: fewer than five groups, one test address
C29_FewGroupsReached ==
    /\ DemoRun
    /\ Len(GroupedData) = 2
    /\ Len(ret.val.test_addresses) = 1
    /\ Attempted = 2
    /\ Len(transport_log) = 2

\* ---------------------------------------------------------------------------
\* C30: the stages of the processor guard their order

\* raw_data is assigned by a successful load_file only, filtered_data by
\* filter_data only and grouped_data by a successful group_by_requester only,
\* so that a field that is still None tells that the stage has not yet run
StageOwnsField ==
    /\ raw_data' # raw_data => ret'.op = "load_file" /\ ret'.val = TRUE
    /\ filtered_data' # filtered_data => ret'.op = "filter_data"
    /\ grouped_data' # grouped_data
          => ret'.op = "group_by_requester" /\ ret'.val = TRUE

\* C30: filter_data called before any successful load_file returns False and
\* changes no field of the processor; group_by_requester called before any
\* filter_data has filtered returns False and changes no field;
\* get_grouped_data returns an empty dict as long as no group_by_requester
\* has succeeded.
C30_StagesGuardTheirOrder ==
    [][ /\ StageOwnsField
        /\ (ret'.op = "filter_data" /\ raw_data = None)
              => ret'.val = FALSE /\ UNCHANGED procVars
        /\ (ret'.op = "group_by_requester" /\ filtered_data = None)
              => ret'.val = FALSE /\ UNCHANGED procVars
        /\ (ret'.op = "get_grouped_data" /\ grouped_data = None)
              => ret'.val = <<>> /\ UNCHANGED procVars ]_vars

\* C30 witness: group_by_requester was called on a loaded file that had not
\* been filtered, and refused
C30_Witness ==
    /\ ret.op = "group_by_requester"
    /\ ret.val = FALSE
    /\ raw_data # None
    /\ \E i \in 1..NRows(TheVal(raw_data)) :
          Strip(Str(Column(TheVal(raw_data), COL_ENTERED_BY)[i])) # <<>>
    /\ filtered_data = None
    /\ grouped_data = None

\* C30 witness of the first guard: filter_data refused before a load
C30_FilterRefusedReached ==
    /\ ret.op = "filter_data"
    /\ ret.val = FALSE
    /\ raw_data = None
    /\ filtered_data = None

\* C30 witness of the third guard: get_grouped_data returned nothing on
\* filtered rows that had not been grouped
C30_EmptyGroupsReached ==
    /\ ret.op = "get_grouped_data"
    /\ ret.val = <<>>
    /\ filtered_data # None
    /\ NRows(TheVal(filtered_data)) > 0
    /\ grouped_data = None

=============================================================================
